---- MODULE Spec2Model ----
(***************************************************************************)
(* Crowd Control: the combatant controller (entities/player.py), the       *)
(* shrinking platform (entities/platform.py), the power-up manager         *)
(* (entities/powerup.py), the hit-stop clock (systems/screenshake.py), the *)
(* collision resolver (core/physics.py) and the round orchestrator         *)
(* (scenes/game_scene.py).                                                 *)
(*                                                                         *)
(* Number representation.  Times are integer milliseconds.  Positions are  *)
(* whole pixels and velocities whole pixels per second; every float        *)
(* product is computed exactly and then truncated toward zero (Div), which *)
(* keeps the sign symmetry of the float arithmetic.  The platform radius   *)
(* is kept in units of 1/RADIUS_UNIT pixel, so that SHRINK_RATE * dt/1000  *)
(* is an exact integer for every integer dt.  Fields that only feed the    *)
(* renderer (glow_pulse, trail_points, colours) are not part of the state. *)
(***************************************************************************)
EXTENDS Integers, Sequences, FiniteSets, TLC

\* ---------------------------------------------------------------- settings
SCREEN_WIDTH == 1280
SCREEN_HEIGHT == 720
PLAYER_RADIUS == 20
PLAYER_SPEED == 300
PLAYER_DASH_SPEED == 600
PLAYER_DASH_DURATION == 150
PLAYER_DASH_COOLDOWN == 1000
PLATFORM_START_RADIUS == 300
PLATFORM_MIN_RADIUS == 100
SHRINK_START_TIME == 10000
SHRINK_RATE == 20
PLAYER_COUNT == 4
COLLISION_PUSH == 250
START_DASH_CHARGES == 1
MAX_DASH_CHARGES == 2
MAX_VEL == 800
BOUNDS_BUFFER == 50
DASH_BUFFER_TIME == 100

\* ---------------------------------------------------------------- arithmetic
\* Float division of an exact integer product, truncated toward zero.
Div(a, b) == IF a >= 0 THEN a \div b ELSE -((-a) \div b)

Abs(a) == IF a >= 0 THEN a ELSE -a
Min(a, b) == IF a <= b THEN a ELSE b
Max(a, b) == IF a >= b THEN a ELSE b

RECURSIVE SqrtIter(_, _, _)
SqrtIter(n, lo, hi) ==
    IF lo >= hi THEN lo
    ELSE LET mid == (lo + hi + 1) \div 2
         IN  IF mid * mid <= n THEN SqrtIter(n, mid, hi) ELSE SqrtIter(n, lo, mid - 1)

\* math.sqrt / Vector2.length, rounded down to a whole unit.
ISqrt(n) == SqrtIter(n, 0, 46340)

Vec(x, y) == [x |-> x, y |-> y]
Length(v) == ISqrt(v.x * v.x + v.y * v.y)

\* ---------------------------------------------------------------- combatant
\* The five logical actions read through pygame.key.get_pressed().
Keys(u, d, l, r, dash) == [up |-> u, down |-> d, left |-> l, right |-> r, dash |-> dash]
NoKeys == Keys(FALSE, FALSE, FALSE, FALSE, FALSE)

\* Player.__init__
NewPlayer(x, y, id) ==
    [ pos |-> Vec(x, y), vel |-> Vec(0, 0), player_id |-> id, alive |-> TRUE,
      is_dashing |-> FALSE, dash_time |-> 0, dash_cooldown |-> 0,
      dash_direction |-> Vec(0, 0), dash_charges |-> START_DASH_CHARGES,
      buffered_dash |-> FALSE, buffer_time |-> 0,
      kills |-> 0, deaths |-> 0 ]

\* Mutant of start_dash: the cooldown is started by every dash.
start_dash_always_cools(p, dir_x, dir_y) ==
    IF p.dash_charges <= 0 THEN p
    ELSE [p EXCEPT !.is_dashing = TRUE,
                   !.dash_time = 0,
                   !.dash_charges = p.dash_charges - 1,
                   !.dash_cooldown = PLAYER_DASH_COOLDOWN,
                   !.dash_direction = Vec(dir_x, dir_y)]

\* Player.start_dash: the direction is stored as the (sign) vector it is
\* called with; DashVel normalises it.
start_dash(p, dir_x, dir_y) ==
    IF p.dash_charges <= 0 THEN p
    ELSE [p EXCEPT !.is_dashing = TRUE,
                   !.dash_time = 0,
                   !.dash_charges = p.dash_charges - 1,
                   !.dash_cooldown = IF p.dash_charges - 1 = 0
                                     THEN PLAYER_DASH_COOLDOWN ELSE @,
                   !.dash_direction = Vec(dir_x, dir_y)]

\* Player.eliminate
eliminate(p) == [p EXCEPT !.alive = FALSE, !.deaths = @ + 1]

\* Player.respawn
respawn(p, x, y) ==
    [p EXCEPT !.pos = Vec(x, y), !.vel = Vec(0, 0), !.alive = TRUE,
              !.dash_charges = MAX_DASH_CHARGES, !.dash_cooldown = 0]

\* Mutant of UpdateCooldown: the recharge is not capped at the maximum.
UpdateCooldown_uncapped(p, dt) ==
    IF p.dash_cooldown > 0
    THEN LET cd == p.dash_cooldown - dt
         IN  IF cd <= 0
             THEN [p EXCEPT !.dash_charges = @ + 1,
                            !.dash_cooldown = PLAYER_DASH_COOLDOWN]
             ELSE [p EXCEPT !.dash_cooldown = cd]
    ELSE p

\* Mutant of UpdateCooldown: one charge per whole cooldown period elapsed.
UpdateCooldown_catch_up(p, dt) ==
    IF p.dash_cooldown > 0
    THEN LET cd == p.dash_cooldown - dt
         IN  IF cd <= 0 /\ p.dash_charges < MAX_DASH_CHARGES
             THEN [p EXCEPT !.dash_charges =
                                Min(MAX_DASH_CHARGES, @ + 1 + ((-cd) \div PLAYER_DASH_COOLDOWN)),
                            !.dash_cooldown = PLAYER_DASH_COOLDOWN]
             ELSE [p EXCEPT !.dash_cooldown = cd]
    ELSE p

\* Player.update, lines 63-68: dash cooldown and recharge.
UpdateCooldown(p, dt) ==
    IF p.dash_cooldown > 0
    THEN LET cd == p.dash_cooldown - dt
         IN  IF cd <= 0 /\ p.dash_charges < MAX_DASH_CHARGES
             THEN [p EXCEPT !.dash_charges = @ + 1,
                            !.dash_cooldown = PLAYER_DASH_COOLDOWN]
             ELSE [p EXCEPT !.dash_cooldown = cd]
    ELSE p

\* Mutant of UpdateBuffer: the buffer clock runs but the flag never expires.
UpdateBuffer_no_expiry(p, dt) ==
    IF p.buffer_time > 0
    THEN [p EXCEPT !.buffer_time = @ - dt]
    ELSE p

\* Player.update, lines 70-74: input buffer expiry.
UpdateBuffer(p, dt) ==
    IF p.buffer_time > 0
    THEN [p EXCEPT !.buffer_time = @ - dt,
                   !.buffered_dash = IF p.buffer_time - dt <= 0 THEN FALSE ELSE @]
    ELSE p

\* dash_direction * PLAYER_DASH_SPEED, dash_direction being the normalised
\* sign vector: 600 along an axis, 600/sqrt(2) = 424 on a diagonal.
DashVel(d) ==
    IF d.x # 0 /\ d.y # 0
    THEN Vec(d.x * Div(PLAYER_DASH_SPEED * 1000, 1414), d.y * Div(PLAYER_DASH_SPEED * 1000, 1414))
    ELSE Vec(d.x * PLAYER_DASH_SPEED, d.y * PLAYER_DASH_SPEED)

\* Player.update, lines 92-107: movement intent in thousandths
\* (0.707 on a diagonal).
MoveX(keys) == (IF keys.right THEN 1 ELSE 0) - (IF keys.left THEN 1 ELSE 0)
MoveY(keys) == (IF keys.down THEN 1 ELSE 0) - (IF keys.up THEN 1 ELSE 0)
MoveScale(keys) == IF MoveX(keys) # 0 /\ MoveY(keys) # 0 THEN 707 ELSE 1000

\* Mutant of UpdateDash: the dash key starts a dash even while one is buffered.
UpdateDash_both_fire(p, dt, keys) ==
    IF p.is_dashing
    THEN IF p.dash_time + dt >= PLAYER_DASH_DURATION
         THEN [p EXCEPT !.is_dashing = FALSE, !.dash_time = 0]
         ELSE LET dv == DashVel(p.dash_direction)
              IN  [p EXCEPT !.dash_time = @ + dt,
                            !.vel = Vec(Div(p.vel.x + 9 * dv.x, 10),
                                        Div(p.vel.y + 9 * dv.y, 10))]
    ELSE LET mx == MoveX(keys)
             my == MoveY(keys)
             moving == mx # 0 \/ my # 0
             tx == Div(mx * MoveScale(keys) * PLAYER_SPEED, 1000)
             ty == Div(my * MoveScale(keys) * PLAYER_SPEED, 1000)
             p1 == [p EXCEPT !.vel = Vec(p.vel.x + Div((tx - p.vel.x) * 15 * dt, 1000),
                                         p.vel.y + Div((ty - p.vel.y) * 15 * dt, 1000))]
             p2 == IF keys.dash /\ p1.dash_charges > 0
                   THEN IF moving THEN start_dash(p1, mx, my)
                        ELSE [p1 EXCEPT !.buffered_dash = TRUE,
                                        !.buffer_time = DASH_BUFFER_TIME]
                   ELSE p1
         IN  IF p2.buffered_dash /\ moving
             THEN [start_dash(p2, mx, my) EXCEPT !.buffered_dash = FALSE]
             ELSE p2

\* Mutant of UpdateDash: the dash ends only once dash_time exceeds the duration.
UpdateDash_late(p, dt, keys) ==
    IF p.is_dashing
    THEN IF p.dash_time + dt > PLAYER_DASH_DURATION
         THEN [p EXCEPT !.is_dashing = FALSE, !.dash_time = 0]
         ELSE LET dv == DashVel(p.dash_direction)
              IN  [p EXCEPT !.dash_time = @ + dt,
                            !.vel = Vec(Div(p.vel.x + 9 * dv.x, 10),
                                        Div(p.vel.y + 9 * dv.y, 10))]
    ELSE LET mx == MoveX(keys)
             my == MoveY(keys)
             moving == mx # 0 \/ my # 0
             tx == Div(mx * MoveScale(keys) * PLAYER_SPEED, 1000)
             ty == Div(my * MoveScale(keys) * PLAYER_SPEED, 1000)
             p1 == [p EXCEPT !.vel = Vec(p.vel.x + Div((tx - p.vel.x) * 15 * dt, 1000),
                                         p.vel.y + Div((ty - p.vel.y) * 15 * dt, 1000))]
             p2 == IF keys.dash /\ p1.dash_charges > 0 /\ ~p1.buffered_dash
                   THEN IF moving THEN start_dash(p1, mx, my)
                        ELSE [p1 EXCEPT !.buffered_dash = TRUE,
                                        !.buffer_time = DASH_BUFFER_TIME]
                   ELSE p1
         IN  IF p2.buffered_dash /\ moving
             THEN [start_dash(p2, mx, my) EXCEPT !.buffered_dash = FALSE]
             ELSE p2

\* Player.update, lines 79-130: the dash state machine and the movement.
UpdateDash(p, dt, keys) ==
    IF p.is_dashing
    THEN IF p.dash_time + dt >= PLAYER_DASH_DURATION
         THEN [p EXCEPT !.is_dashing = FALSE, !.dash_time = 0]
         ELSE LET dv == DashVel(p.dash_direction)
              IN  [p EXCEPT !.dash_time = @ + dt,
                            !.vel = Vec(Div(p.vel.x + 9 * dv.x, 10),
                                        Div(p.vel.y + 9 * dv.y, 10))]
    ELSE LET mx == MoveX(keys)
             my == MoveY(keys)
             moving == mx # 0 \/ my # 0
             tx == Div(mx * MoveScale(keys) * PLAYER_SPEED, 1000)
             ty == Div(my * MoveScale(keys) * PLAYER_SPEED, 1000)
             p1 == [p EXCEPT !.vel = Vec(p.vel.x + Div((tx - p.vel.x) * 15 * dt, 1000),
                                         p.vel.y + Div((ty - p.vel.y) * 15 * dt, 1000))]
             p2 == IF keys.dash /\ p1.dash_charges > 0 /\ ~p1.buffered_dash
                   THEN IF moving THEN start_dash(p1, mx, my)
                        ELSE [p1 EXCEPT !.buffered_dash = TRUE,
                                        !.buffer_time = DASH_BUFFER_TIME]
                   ELSE p1
         IN  IF p2.buffered_dash /\ moving
             THEN [start_dash(p2, mx, my) EXCEPT !.buffered_dash = FALSE]
             ELSE p2

\* Vector2.scale_to_length(len) of a vector longer than len.  Components
\* beyond 30000 are first divided by 64, which keeps the direction and keeps
\* the squares inside the 32-bit integers of the checker.
ScaleToLength(v, len) ==
    LET s == IF Max(Abs(v.x), Abs(v.y)) > 30000 THEN 64 ELSE 1
        a == Div(v.x, s)
        b == Div(v.y, s)
        l == ISqrt(a * a + b * b)
    IN  Vec(Div(a * len, l), Div(b * len, l))

\* vel.length() > len
LongerThan(v, len) ==
    \/ Max(Abs(v.x), Abs(v.y)) > 30000
    \/ v.x * v.x + v.y * v.y > len * len

\* Player.update, lines 132-146: friction, velocity clamp, integration and
\* the screen-bounds clamp.
UpdateMotion(p, dt) ==
    LET f == Vec(Div(p.vel.x * 92, 100), Div(p.vel.y * 92, 100))
        v == IF LongerThan(f, MAX_VEL) THEN ScaleToLength(f, MAX_VEL) ELSE f
        nx == p.pos.x + Div(v.x * dt, 1000)
        ny == p.pos.y + Div(v.y * dt, 1000)
    IN  [p EXCEPT !.vel = v,
                  !.pos = Vec(Max(-BOUNDS_BUFFER, Min(SCREEN_WIDTH + BOUNDS_BUFFER, nx)),
                              Max(-BOUNDS_BUFFER, Min(SCREEN_HEIGHT + BOUNDS_BUFFER, ny)))]

\* Player.update
PlayerUpdate(p, dt, keys) ==
    IF ~p.alive THEN p
    ELSE UpdateMotion(UpdateDash(UpdateBuffer(UpdateCooldown(p, dt), dt), dt, keys), dt)

\* ---------------------------------------------------------------- platform
\* Denominator of the fixed-point radius: SHRINK_RATE * dt / 1000 pixels is
\* dt radius units.
RADIUS_UNIT == 1000 \div SHRINK_RATE
CENTER == Vec(SCREEN_WIDTH \div 2, SCREEN_HEIGHT \div 2)

\* Mutant of Platform.update: the result is not clamped to the minimum.
PlatformUpdate_unclamped(radius, dt) ==
    IF radius > PLATFORM_MIN_RADIUS * RADIUS_UNIT
    THEN radius - Div(SHRINK_RATE * dt * RADIUS_UNIT, 1000)
    ELSE radius

\* Platform.update
PlatformUpdate(radius, dt) ==
    IF radius > PLATFORM_MIN_RADIUS * RADIUS_UNIT
    THEN Max(radius - Div(SHRINK_RATE * dt * RADIUS_UNIT, 1000),
             PLATFORM_MIN_RADIUS * RADIUS_UNIT)
    ELSE radius

\* Mutant of contains_point: a point exactly on the edge is outside.
contains_point_open(radius, pos) ==
    LET dx == pos.x - CENTER.x
        dy == pos.y - CENTER.y
    IN  (dx * dx + dy * dy) * RADIUS_UNIT * RADIUS_UNIT < radius * radius

\* Platform.contains_point / circle_contains_point
contains_point(radius, pos) ==
    LET dx == pos.x - CENTER.x
        dy == pos.y - CENTER.y
    IN  (dx * dx + dy * dy) * RADIUS_UNIT * RADIUS_UNIT <= radius * radius

\* ---------------------------------------------------------------- power-ups
\* PowerUpType: the five types spawn_random draws from.
SPEED_BOOST == "speed"
SHIELD == "shield"
SIZE_UP == "size_up"
SIZE_DOWN == "size_down"
TRIPLE_DASH == "triple_dash"
SpawnTypes == {SPEED_BOOST, SHIELD, SIZE_UP, SIZE_DOWN, TRIPLE_DASH}

\* Mutant of apply_powerup: a shield is worth a charge as well.
apply_powerup_shield_charge(p, powerup_type) ==
    IF powerup_type \in {SPEED_BOOST, SHIELD}
    THEN [p EXCEPT !.dash_charges = Min(MAX_DASH_CHARGES, p.dash_charges + 1)]
    ELSE IF powerup_type = TRIPLE_DASH
    THEN [p EXCEPT !.dash_charges = MAX_DASH_CHARGES]
    ELSE p

\* GameScene._apply_powerup
apply_powerup(p, powerup_type) ==
    IF powerup_type = SPEED_BOOST
    THEN [p EXCEPT !.dash_charges = Min(MAX_DASH_CHARGES, p.dash_charges + 1)]
    ELSE IF powerup_type = TRIPLE_DASH
    THEN [p EXCEPT !.dash_charges = MAX_DASH_CHARGES]
    ELSE p

\* ---------------------------------------------------------------- state
VARIABLES
    player_count,       \* GameScene.player_count
    players,            \* GameScene.players: player_id -> combatant
    platform,           \* GameScene.platform: [radius]
    powerups,           \* PowerUpManager.powerups
    spawn_timer,        \* PowerUpManager.spawn_timer
    hitstop_duration,   \* ScreenShake.hitstop_duration
    hitstop_elapsed,    \* ScreenShake.hitstop_elapsed
    round_time, game_over, winner, scores,
    countdown, countdown_time, game_started,
    shrunk_for,         \* history: dt handed to Platform.update since the
                        \* platform was created
    pair_log,           \* history: the pairs handed to check_collision by the
                        \* latest frame of a running round, in order
    particles,          \* ParticleSystem.particles: the pool
    active_count,       \* ParticleSystem.active_count
    ai,                 \* the planner fields AIPlayer adds to combatant 0
    roster,             \* AIManager.ai_players: <<round, player_id>> of each
                        \* AIPlayer registered, the round being numbered by calls
    since_buffer,       \* history: update dt accumulated by combatant 0 since its
                        \* dash was buffered, -1 while none is buffered (kept by
                        \* the buffer harness only)
    since_empty,        \* history: update dt accumulated by combatant 0 since its
                        \* last charge was consumed, -1 while it holds a charge
    calls               \* driver: number of operations issued so far

sceneVars == <<player_count, platform, powerups, spawn_timer, hitstop_duration,
               hitstop_elapsed, round_time, game_over, winner, scores,
               countdown, countdown_time, game_started, shrunk_for,
               pair_log, particles, active_count, ai>>
auxVars == <<particles, active_count, ai>>
vars == <<player_count, players, platform, powerups, spawn_timer, hitstop_duration,
          hitstop_elapsed, round_time, game_over, winner, scores,
          countdown, countdown_time, game_started, shrunk_for, pair_log,
          particles, active_count, ai, since_empty, since_buffer, roster, calls>>

None == -1

\* ParticleSystem.__init__(pool_size): the pool size of the model.
PoolSize == 4

\* Particle.reset
NewParticle ==
    [ pos |-> Vec(0, 0), velocity |-> Vec(0, 0), lifetime |-> 1000, age |-> 0,
      gravity |-> 0, active |-> FALSE ]

\* A scene without an AI combatant.
NoAI == [present |-> FALSE]

\* GameScene.__init__ (and Platform.__init__, PowerUpManager.__init__,
\* ScreenShake.__init__) before any round is set up.
SceneFields ==
    /\ player_count = 2
    /\ platform = [radius |-> PLATFORM_START_RADIUS * RADIUS_UNIT]
    /\ powerups = <<>>
    /\ spawn_timer = 0
    /\ hitstop_duration = 0
    /\ hitstop_elapsed = 0
    /\ round_time = 0
    /\ game_over = FALSE
    /\ winner = None
    /\ scores = [i \in 0 .. PLAYER_COUNT - 1 |-> 0]
    /\ countdown = 3
    /\ countdown_time = 0
    /\ game_started = FALSE
    /\ shrunk_for = 0
    /\ pair_log = <<>>
    /\ particles = [k \in 1 .. PoolSize |-> NewParticle]
    /\ active_count = 0

SceneInit ==
    /\ SceneFields
    /\ ai = NoAI

\* ------------------------------------------------- a combatant on its own
\* One Player object driven through its public operations in any order, for
\* at most MaxCalls operations.
MaxCalls == 6
CombatantDTs == {0, 1, 999, 2500}
CombatantKeys == { NoKeys,
                   Keys(FALSE, FALSE, FALSE, FALSE, TRUE),
                   Keys(FALSE, FALSE, FALSE, TRUE, TRUE) }
Directions == {Vec(1, 0), Vec(-1, 1)}
SpawnX == CENTER.x + 150
SpawnY == CENTER.y

InitCombatant ==
    /\ SceneInit
    /\ players = [i \in {0} |-> NewPlayer(SpawnX, SpawnY, 0)]
    /\ since_empty = -1
    /\ since_buffer = -1
    /\ roster = <<>>
    /\ calls = 0

\* A dash started by this step consumed the last charge.
Emptied(p, q) == q.dash_charges = 0 /\ ~p.is_dashing /\ q.is_dashing

Call == calls < MaxCalls /\ calls' = calls + 1

CUpdate(dt, keys) ==
    /\ Call
    /\ players' = [players EXCEPT ![0] = PlayerUpdate(@, dt, keys)]
    /\ UNCHANGED <<since_buffer, roster>>
    /\ since_empty' = IF players'[0].dash_charges > 0 THEN -1
                      ELSE IF Emptied(players[0], players'[0]) THEN 0
                      ELSE IF players[0].alive THEN since_empty + dt
                      ELSE since_empty
    /\ UNCHANGED sceneVars

CStartDash(d) ==
    /\ Call
    /\ players' = [players EXCEPT ![0] = start_dash(@, d.x, d.y)]
    /\ UNCHANGED <<since_buffer, roster>>
    /\ since_empty' = IF players[0].dash_charges = 1 THEN 0 ELSE since_empty
    /\ UNCHANGED sceneVars

CApplyPowerup(t) ==
    /\ Call
    /\ players[0].alive
    /\ players' = [players EXCEPT ![0] = apply_powerup(@, t)]
    /\ UNCHANGED <<since_buffer, roster>>
    /\ since_empty' = IF players'[0].dash_charges > 0 THEN -1 ELSE since_empty
    /\ UNCHANGED sceneVars

CEliminate ==
    /\ Call
    /\ players[0].alive
    /\ players' = [players EXCEPT ![0] = eliminate(@)]
    /\ UNCHANGED <<since_empty, since_buffer, roster, sceneVars>>

CRespawn ==
    /\ Call
    /\ players' = [players EXCEPT ![0] = respawn(@, SpawnX, SpawnY)]
    /\ UNCHANGED <<since_buffer, roster>>
    /\ since_empty' = -1
    /\ UNCHANGED sceneVars

NextCombatant ==
    \/ \E dt \in CombatantDTs, keys \in CombatantKeys : CUpdate(dt, keys)
    \/ \E d \in Directions : CStartDash(d)
    \/ \E t \in SpawnTypes : CApplyPowerup(t)
    \/ CEliminate
    \/ CRespawn

SpecCombatant == InitCombatant /\ [][NextCombatant]_vars

\* ------------------------------------------------- claims on the combatant
\* C1: in every reachable state of a combatant, under any interleaving of
\* update, start_dash, power-up application and respawn,
\* 0 <= dash_charges <= max_dash_charges.
C1_ChargesInRange ==
    \A i \in DOMAIN players :
        players[i].dash_charges >= 0 /\ players[i].dash_charges <= MAX_DASH_CHARGES

\* A cooldown ran out on a combatant that already held the maximum.
C1_Witness ==
    players[0].dash_charges = MAX_DASH_CHARGES /\ players[0].dash_cooldown < 0

\* C2: start_dash changes no field when dash_charges <= 0; otherwise it
\* takes exactly one charge, sets is_dashing, resets dash_time to 0 and
\* starts the cooldown if and only if that charge was the last one.
C2_StartDash ==
    [][\A d \in Directions :
          CStartDash(d) =>
              LET p == players[0]
                  q == players'[0]
              IN  IF p.dash_charges <= 0 THEN q = p
                  ELSE /\ q.dash_charges = p.dash_charges - 1
                       /\ q.is_dashing
                       /\ q.dash_time = 0
                       /\ q.dash_cooldown = IF q.dash_charges = 0
                                            THEN PLAYER_DASH_COOLDOWN
                                            ELSE p.dash_cooldown]_vars

\* A dash that took the second of two charges while an earlier cooldown was
\* still running: the running timer was left alone.
C2_Witness ==
    /\ players[0].is_dashing
    /\ players[0].dash_charges = 1
    /\ players[0].dash_cooldown > 0
    /\ players[0].dash_cooldown < PLAYER_DASH_COOLDOWN

\* Charges regenerated by one update step: the change of dash_charges, plus
\* the charge taken by a dash the step started.
Regenerated(p, q) ==
    q.dash_charges - p.dash_charges + (IF ~p.is_dashing /\ q.is_dashing THEN 1 ELSE 0)

\* C3: no update of a living combatant regenerates more than one charge,
\* however large its dt; and after the last charge was consumed an update
\* regenerates a charge exactly when the dt accumulated since then reaches
\* PLAYER_DASH_COOLDOWN.
C3_OneChargePerCooldown ==
    [][LET p == players[0]
           q == players'[0]
       IN  /\ \/ Regenerated(p, q) \in {0, 1}
              \/ ~(p.alive /\ \E dt \in CombatantDTs, keys \in CombatantKeys :
                                  CUpdate(dt, keys))
           /\ (p.alive /\ p.dash_charges = 0) =>
                 /\ since_empty >= 0
                 /\ since_empty < PLAYER_DASH_COOLDOWN
                 /\ \A dt \in CombatantDTs, keys \in CombatantKeys :
                       CUpdate(dt, keys) =>
                           (Regenerated(p, q) = 1
                               <=> since_empty + dt >= PLAYER_DASH_COOLDOWN)]_vars

\* The charge came back in the update that brought the accumulated dt from
\* 999 to exactly 1000.
C3_Witness ==
    /\ players[0].dash_charges = 1
    /\ players[0].dash_cooldown = PLAYER_DASH_COOLDOWN
    /\ players[0].buffer_time = 0
    /\ calls = 3

\* ------------------------------------------------------ a platform on its own
\* One Platform object fed any sequence of update(dt) calls.
MaxShrinkTime == 12000
PlatformDTs == {0, 16, 1000, 10000, 100000}

InitPlatform ==
    /\ SceneInit
    /\ players = [i \in {} |-> NewPlayer(0, 0, 0)]
    /\ since_empty = -1
    /\ since_buffer = -1
    /\ roster = <<>>
    /\ calls = 0

PUpdate(dt) ==
    /\ shrunk_for <= MaxShrinkTime
    /\ platform' = [platform EXCEPT !.radius = PlatformUpdate(@, dt)]
    /\ shrunk_for' = shrunk_for + dt
    /\ UNCHANGED <<player_count, players, powerups, spawn_timer, hitstop_duration,
                   hitstop_elapsed, round_time, game_over, winner, scores,
                   countdown, countdown_time, game_started, since_empty, since_buffer, roster, calls, pair_log, auxVars>>

NextPlatform == \E dt \in PlatformDTs : PUpdate(dt)

SpecPlatform == InitPlatform /\ [][NextPlatform]_vars

\* C7: over every sequence of Platform.update(dt) calls with dt >= 0, a very
\* large dt included, the radius never grows and stays between
\* PLATFORM_MIN_RADIUS and PLATFORM_START_RADIUS; it is the start radius minus
\* 20 px per second of dt fed so far, clamped to exactly the minimum (so 10 s
\* of shrink give exactly 100), and once at the minimum it stays there.
C7_ShrinkClamped ==
    [][\A dt \in PlatformDTs : PUpdate(dt) =>
          /\ platform'.radius <= platform.radius
          /\ platform'.radius >= PLATFORM_MIN_RADIUS * RADIUS_UNIT
          /\ platform'.radius <= PLATFORM_START_RADIUS * RADIUS_UNIT
          /\ platform'.radius * 1000 =
                Max(PLATFORM_MIN_RADIUS * RADIUS_UNIT * 1000,
                    PLATFORM_START_RADIUS * RADIUS_UNIT * 1000
                        - SHRINK_RATE * RADIUS_UNIT * shrunk_for')
          /\ (platform.radius = PLATFORM_MIN_RADIUS * RADIUS_UNIT
                 => platform'.radius = PLATFORM_MIN_RADIUS * RADIUS_UNIT)]_vars

\* A single update of 100 s overshot the floor and the radius sits exactly
\* on it.
C7_Witness ==
    /\ platform.radius = PLATFORM_MIN_RADIUS * RADIUS_UNIT
    /\ shrunk_for = 100000

\* --------------------------------------------------- the round orchestrator
POWERUP_RADIUS == 15
POWERUP_LIFETIME == 15000
SPAWN_INTERVAL == 8000
MAX_POWERUPS == 3
SPAWN_RADIUS == 150
CELL_SIZE == 100
HITSTOP_ELIMINATION == 150
HITSTOP_COLLISION == 40
COUNTDOWN_START == 3
COUNTDOWN_TICK == 1000

\* Vector2(1, 0).rotate(angle) in thousandths, for the angles
\* i * 360 / player_count of the first four of 1 to 5 combatants.
Rotate(angle) ==
    CASE angle = 0   -> Vec(1000, 0)
      [] angle = 72  -> Vec(309, 951)
      [] angle = 144 -> Vec(-809, 588)
      [] angle = 216 -> Vec(-809, -588)
      [] angle = 90  -> Vec(0, 1000)
      [] angle = 120 -> Vec(-500, 866)
      [] angle = 180 -> Vec(-1000, 0)
      [] angle = 240 -> Vec(-500, -866)
      [] angle = 270 -> Vec(0, -1000)

\* GameScene._setup_round, lines 85-97: the spawn ring.
SpawnPoint(i, n) ==
    LET r == Rotate(i * (360 \div n))
    IN  Vec(CENTER.x + Div(SPAWN_RADIUS * r.x, 1000),
            CENTER.y + Div(SPAWN_RADIUS * r.y, 1000))

\* Mutant of SetupRound: a new round starts the scores again.
SetupRound_resets_scores(n) ==
    /\ round_time' = 0
    /\ game_over' = FALSE
    /\ winner' = None
    /\ countdown' = COUNTDOWN_START
    /\ countdown_time' = 0
    /\ game_started' = FALSE
    /\ platform' = [radius |-> PLATFORM_START_RADIUS * RADIUS_UNIT]
    /\ shrunk_for' = 0
    /\ players' = [i \in 0 .. n - 1 |-> NewPlayer(SpawnPoint(i, n).x, SpawnPoint(i, n).y, i)]
    /\ hitstop_duration' = 0
    /\ hitstop_elapsed' = 0
    /\ powerups' = <<>>
    /\ scores' = [i \in DOMAIN scores |-> 0]
    /\ UNCHANGED spawn_timer

\* GameScene._setup_round with n human combatants (ai_count is 0 in every
\* scene the program builds).  PowerUpManager.clear() empties the list and
\* leaves spawn_timer alone; the scores are not touched.
SetupRound(n) ==
    /\ round_time' = 0
    /\ game_over' = FALSE
    /\ winner' = None
    /\ countdown' = COUNTDOWN_START
    /\ countdown_time' = 0
    /\ game_started' = FALSE
    /\ platform' = [radius |-> PLATFORM_START_RADIUS * RADIUS_UNIT]
    /\ shrunk_for' = 0
    /\ players' = [i \in 0 .. n - 1 |-> NewPlayer(SpawnPoint(i, n).x, SpawnPoint(i, n).y, i)]
    /\ hitstop_duration' = 0
    /\ hitstop_elapsed' = 0
    /\ powerups' = <<>>
    /\ UNCHANGED <<spawn_timer, scores>>

\* PowerUp.__init__
NewPowerUp(pos, type) == [pos |-> pos, type |-> type, age |-> 0]

\* PowerUpManager.spawn_random draws a point within 0.7 * radius of the centre.
SpawnAllowed(radius, spot) ==
    Length(Vec(spot.x - CENTER.x, spot.y - CENTER.y)) * RADIUS_UNIT * 10 <= 7 * radius

\* Mutant of Spawns: a power-up whenever there is room for one.
Spawns_whenever(timer, pus, dt) == Len(pus) < MAX_POWERUPS

\* PowerUpManager.update: the spawn test.
Spawns(timer, pus, dt) == timer + dt >= SPAWN_INTERVAL /\ Len(pus) < MAX_POWERUPS

\* PowerUpManager.update: spawn, then age every power-up (the new one
\* included) and drop the expired ones.
PowerupsUpdate(pus, timer, dt, spot, type) ==
    LET spawned == IF Spawns(timer, pus, dt) THEN Append(pus, NewPowerUp(spot, type)) ELSE pus
        aged == [k \in 1 .. Len(spawned) |-> [spawned[k] EXCEPT !.age = @ + dt]]
    IN  [ powerups |-> SelectSeq(aged, LAMBDA u : u.age < POWERUP_LIFETIME),
          spawn_timer |-> IF timer + dt >= SPAWN_INTERVAL THEN 0 ELSE timer + dt ]

\* PowerUp.check_pickup
check_pickup(u, p) ==
    LET dx == p.pos.x - u.pos.x
        dy == p.pos.y - u.pos.y
    IN  dx * dx + dy * dy < (POWERUP_RADIUS + PLAYER_RADIUS) * (POWERUP_RADIUS + PLAYER_RADIUS)

\* Mutant of PickupIndex: the newest power-up in reach is the one claimed.
PickupIndex_newest(pus, p) ==
    LET hits == {k \in 1 .. Len(pus) : check_pickup(pus[k], p)}
    IN  IF hits = {} THEN 0 ELSE CHOOSE k \in hits : \A j \in hits : k >= j

\* PowerUpManager.check_pickups: index of the first power-up in reach, 0 if none.
PickupIndex(pus, p) ==
    LET hits == {k \in 1 .. Len(pus) : check_pickup(pus[k], p)}
    IN  IF hits = {} THEN 0 ELSE CHOOSE k \in hits : \A j \in hits : k <= j

RemoveAt(s, k) == SubSeq(s, 1, k - 1) \o SubSeq(s, k + 1, Len(s))

\* ScreenShake.update: the dt it returns, and the hit-stop clock it leaves.
ShakeDt(hd, he, dt) == IF he < hd THEN Div(dt, 10) ELSE dt
ShakeElapsed(hd, he, dt) == IF he < hd THEN he + dt ELSE he

\* SpatialGrid._get_cell
Cell(pos) == <<pos.x \div CELL_SIZE, pos.y \div CELL_SIZE>>

\* check_collision
check_collision(e1, e2) ==
    LET dx == e2.pos.x - e1.pos.x
        dy == e2.pos.y - e1.pos.y
    IN  dx * dx + dy * dy < (2 * PLAYER_RADIUS) * (2 * PLAYER_RADIUS)

\* Mutant of resolve_collision: the tangential force has the same sign
\* whichever way round the pair is passed.
resolve_collision_fixed_tangent(e1, e2, nrm) ==
    LET dx == e2.pos.x - e1.pos.x
        dy == e2.pos.y - e1.pos.y
        same == dx = 0 /\ dy = 0
        dist == IF same THEN 0 ELSE ISqrt((dx * dx + dy * dy) * 1000000)
        nx == IF same THEN nrm.x ELSE Div(dx * 1000000, dist)
        ny == IF same THEN nrm.y ELSE Div(dy * 1000000, dist)
        correction == Div((2 * PLAYER_RADIUS * 1000 - dist) * 6, 10)
        cx == Div(nx * correction, 1000000)
        cy == Div(ny * correction, 1000000)
        q1 == [e1 EXCEPT !.pos = Vec(e1.pos.x - cx, e1.pos.y - cy)]
        q2 == [e2 EXCEPT !.pos = Vec(e2.pos.x + cx, e2.pos.y + cy)]
        van == Div((e2.vel.x - e1.vel.x) * nx + (e2.vel.y - e1.vel.y) * ny, 1000)
        strength == Div(-17 * van, 20)
        ix == Div(strength * nx, 1000) + Div(nx * COLLISION_PUSH, 1000) - Div(-Abs(ny) * 50, 1000)
        iy == Div(strength * ny, 1000) + Div(ny * COLLISION_PUSH, 1000) - Div(Abs(nx) * 50, 1000)
    IN  IF van > 0 THEN <<q1, q2>>
        ELSE << [q1 EXCEPT !.vel = Vec(e1.vel.x - ix, e1.vel.y - iy)],
                [q2 EXCEPT !.vel = Vec(e2.vel.x + ix, e2.vel.y + iy)] >>

\* resolve_collision of two overlapping combatants; nrm is the random unit
\* normal (in thousandths) drawn when the centres coincide.  Distances are
\* in thousandths of a pixel.
resolve_collision(e1, e2, nrm) ==
    LET dx == e2.pos.x - e1.pos.x
        dy == e2.pos.y - e1.pos.y
        same == dx = 0 /\ dy = 0
        dist == IF same THEN 0 ELSE ISqrt((dx * dx + dy * dy) * 1000000)
        nx == IF same THEN nrm.x ELSE Div(dx * 1000000, dist)
        ny == IF same THEN nrm.y ELSE Div(dy * 1000000, dist)
        correction == Div((2 * PLAYER_RADIUS * 1000 - dist) * 6, 10)
        cx == Div(nx * correction, 1000000)
        cy == Div(ny * correction, 1000000)
        q1 == [e1 EXCEPT !.pos = Vec(e1.pos.x - cx, e1.pos.y - cy)]
        q2 == [e2 EXCEPT !.pos = Vec(e2.pos.x + cx, e2.pos.y + cy)]
        van == Div((e2.vel.x - e1.vel.x) * nx + (e2.vel.y - e1.vel.y) * ny, 1000)
        strength == Div(-17 * van, 20)
        ix == Div(strength * nx, 1000) + Div(nx * COLLISION_PUSH, 1000) - Div(-ny * 50, 1000)
        iy == Div(strength * ny, 1000) + Div(ny * COLLISION_PUSH, 1000) - Div(nx * 50, 1000)
    IN  IF van > 0 THEN <<q1, q2>>
        ELSE << [q1 EXCEPT !.vel = Vec(e1.vel.x - ix, e1.vel.y - iy)],
                [q2 EXCEPT !.vel = Vec(e2.vel.x + ix, e2.vel.y + iy)] >>

\* Mutant of Participates: the frame loop also runs for the dead.
Participates_all(p) == TRUE

\* GameScene.update, line 201: the per-combatant guard of the frame loop.
Participates(p) == p.alive

\* GameScene.update, lines 199-217: one pass of the loop body for combatant
\* i.  w carries the frame's mutable objects: the combatants, the power-up
\* list and spawn timer, the platform radius, the hit-stop clock,
\* alive_players, the grid cell each inserted combatant was filed under,
\* checked_pairs and (log) the pairs handed to check_collision so far.
PlayerStep(w, i, dt, keys) ==
    IF ~Participates(w.players[i]) THEN w
    ELSE LET p1 == PlayerUpdate(w.players[i], ShakeDt(w.hd, w.he, dt), keys[i])
             he == ShakeElapsed(w.hd, w.he, dt)
             k  == PickupIndex(w.powerups, p1)
             p2 == IF k > 0 THEN apply_powerup(p1, w.powerups[k].type) ELSE p1
             pus == IF k > 0 THEN RemoveAt(w.powerups, k) ELSE w.powerups
         IN  IF contains_point(w.radius, p2.pos)
             THEN [w EXCEPT !.players[i] = p2, !.powerups = pus, !.he = he,
                            !.alive = Append(@, i), !.cells[i] = Cell(p2.pos)]
             ELSE [w EXCEPT !.players[i] = eliminate(p2), !.powerups = pus,
                            !.hd = HITSTOP_ELIMINATION, !.he = 0]

RECURSIVE PlayersLoop(_, _, _, _)
PlayersLoop(w, i, dt, keys) ==
    IF i \notin DOMAIN w.players THEN w
    ELSE PlayersLoop(PlayerStep(w, i, dt, keys), i + 1, dt, keys)

\* SpatialGrid.get_nearby: the combatants filed under the 3 x 3 cells around
\* the current position of i, cell by cell, each cell in insertion order.
CellOrder == << <<-1, -1>>, <<-1, 0>>, <<-1, 1>>, <<0, -1>>, <<0, 0>>, <<0, 1>>,
                <<1, -1>>, <<1, 0>>, <<1, 1>> >>

RECURSIVE NearbyFrom(_, _, _)
NearbyFrom(w, c, k) ==
    IF k > Len(CellOrder) THEN <<>>
    ELSE SelectSeq(w.alive, LAMBDA j : w.cells[j] = <<c[1] + CellOrder[k][1], c[2] + CellOrder[k][2]>>)
         \o NearbyFrom(w, c, k + 1)

get_nearby(w, i) == NearbyFrom(w, Cell(w.players[i].pos), 1)

\* GameScene.update, lines 235-259: resolve one colliding pair; an impact
\* above 0.6 starts a 40 ms hit-stop.
Collide(w, a, b, nrm) ==
    LET r == resolve_collision(w.players[a], w.players[b], nrm)
        hard == Length(r[1].vel) + Length(r[2].vel) > 600
    IN  [w EXCEPT !.players[a] = r[1], !.players[b] = r[2],
                  !.hd = IF hard THEN HITSTOP_COLLISION ELSE @,
                  !.he = IF hard THEN 0 ELSE @]

\* Mutant of AlreadyChecked: no pair is remembered.
AlreadyChecked_never(checked, a, b) == FALSE

\* GameScene.update, lines 231-232: the unordered pair is in checked_pairs.
AlreadyChecked(checked, a, b) == {a, b} \in checked

RECURSIVE NearbyLoop(_, _, _, _, _)
NearbyLoop(w, a, nearby, k, nrm) ==
    IF k > Len(nearby) THEN w
    ELSE LET b == nearby[k]
         IN  IF a # b /\ w.players[a].alive /\ w.players[b].alive
                /\ ~AlreadyChecked(w.checked, a, b)
             THEN LET w1 == [w EXCEPT !.checked = @ \cup {{a, b}},
                                      !.log = Append(@, <<a, b>>)]
                  IN  NearbyLoop(IF check_collision(w.players[a], w.players[b])
                                 THEN Collide(w1, a, b, nrm) ELSE w1,
                                 a, nearby, k + 1, nrm)
             ELSE NearbyLoop(w, a, nearby, k + 1, nrm)

\* GameScene.update, lines 226-262: the collision pass over alive_players.
RECURSIVE CollisionLoop(_, _, _)
CollisionLoop(w, n, nrm) ==
    IF n > Len(w.alive) THEN w
    ELSE CollisionLoop(NearbyLoop(w, w.alive[n], get_nearby(w, w.alive[n]), 1, nrm),
                       n + 1, nrm)

\* Mutant of ShrinkDue: the platform shrinks from the first running frame.
ShrinkDue_at_once(rt) == TRUE

\* GameScene.update, line 185: the shrink gate.
ShrinkDue(rt) == rt > SHRINK_START_TIME

\* Mutant of RoundEnds: the round ends only when nobody is left.
RoundEnds_when_empty(alive) == Len(alive) = 0

\* GameScene.update, line 265: the win test.
RoundEnds(alive) == Len(alive) <= 1

\* Mutant of Award: a win is worth two points.
Award_double(sc, w) == IF w = None THEN sc ELSE [sc EXCEPT ![w] = @ + 2]

\* GameScene._end_round, lines 318-319.
Award(sc, w) == IF w = None THEN sc ELSE [sc EXCEPT ![w] = @ + 1]

\* Mutant of CountdownTicks: a long frame ticks once per second it spans.
CountdownTicks_catch_up(ct, dt) == (ct + dt) \div COUNTDOWN_TICK

\* GameScene.update, lines 148-151: one countdown tick at most per frame.
CountdownTicks(ct, dt) == IF ct + dt >= COUNTDOWN_TICK THEN 1 ELSE 0

\* The scene driven by frames, the R key and re-entry from the menu, for at
\* most MaxFrames frames of running rounds.
MaxFrames == 4
FrameDTs == {200, 1000, 10000}
HoldLeft == Keys(FALSE, FALSE, TRUE, FALSE, FALSE)
DashRight == Keys(FALSE, FALSE, FALSE, TRUE, TRUE)
FrameKeys == {NoKeys, HoldLeft, DashRight}
PlayerCounts == {2, 3}
SpawnSpots == {CENTER, SpawnPoint(0, 2)}
FrameTypes == {SPEED_BOOST, SHIELD, TRIPLE_DASH}
Normals == {Vec(1000, 0), Vec(0, -1000)}

\* The keys held during one frame: every combatant the same keys, or
\* combatant 0 heading left and the others dashing right.
JointKeys(ids) ==
    {[i \in ids |-> k] : k \in FrameKeys}
        \cup {[i \in ids |-> IF i = 0 THEN HoldLeft ELSE DashRight]}

\* The scene after construction and its first on_enter.
Init ==
    /\ SceneInit
    /\ players = [i \in 0 .. 1 |-> NewPlayer(SpawnPoint(i, 2).x, SpawnPoint(i, 2).y, i)]
    /\ since_empty = -1
    /\ since_buffer = -1
    /\ roster = <<>>
    /\ calls = 0

\* GameScene.update, lines 147-160: a frame of the countdown.
CountdownFrame(dt) ==
    /\ ~game_started
    /\ LET t == CountdownTicks(countdown_time, dt)
       IN  /\ countdown_time' = IF t > 0 THEN 0 ELSE countdown_time + dt
           /\ countdown' = countdown - t
           /\ game_started' = (t > 0 /\ countdown - t <= 0)
    /\ UNCHANGED <<player_count, players, platform, powerups, spawn_timer,
                   hitstop_duration, hitstop_elapsed, round_time, game_over,
                   winner, scores, shrunk_for, since_empty, since_buffer, roster, calls, pair_log, auxVars>>

\* Mutant of GameOverFrame: the round clock keeps running after the end.
GameOverFrame_clock(dt) ==
    /\ game_started
    /\ game_over
    /\ hitstop_elapsed' = ShakeElapsed(hitstop_duration, hitstop_elapsed, dt)
    /\ round_time' = round_time + dt
    /\ UNCHANGED <<player_count, players, platform, powerups, spawn_timer,
                   hitstop_duration, game_over, winner, scores,
                   countdown, countdown_time, game_started, shrunk_for,
                   since_empty, since_buffer, roster, calls, pair_log, auxVars>>

\* GameScene.update, lines 162-168: a frame after the round has ended.
GameOverFrame(dt) ==
    /\ game_started
    /\ game_over
    /\ hitstop_elapsed' = ShakeElapsed(hitstop_duration, hitstop_elapsed, dt)
    /\ UNCHANGED <<player_count, players, platform, powerups, spawn_timer,
                   hitstop_duration, round_time, game_over, winner, scores,
                   countdown, countdown_time, game_started, shrunk_for,
                   since_empty, since_buffer, roster, calls, pair_log, auxVars>>

\* Two combatants entering the collision pass on the same point, or three
\* and more (an earlier resolution may push two of them onto one point).
MayCoincide(w) ==
    \/ Len(w.alive) >= 3
    \/ \E a, b \in DOMAIN w.players :
          a # b /\ w.players[a].alive /\ w.players[b].alive
                /\ w.players[a].pos = w.players[b].pos

\* GameScene.update, lines 170-224: the frame up to the end of the loop over
\* the combatants.
BeforeCollisions(dt, keys, spot, type) ==
    LET rt == round_time + dt
        radius == IF ShrinkDue(rt) THEN PlatformUpdate(platform.radius, dt)
                  ELSE platform.radius
        pm == PowerupsUpdate(powerups, spawn_timer, dt, spot, type)
    IN  PlayersLoop([ players |-> players, powerups |-> pm.powerups,
                      hd |-> hitstop_duration, he |-> hitstop_elapsed,
                      alive |-> <<>>, cells |-> [i \in DOMAIN players |-> <<0, 0>>],
                      checked |-> {}, log |-> <<>>, radius |-> radius, spawn_timer |-> pm.spawn_timer ],
                    0, dt, keys)

\* GameScene.update, lines 170-266: a frame of the running round.  keys maps
\* each combatant to the keys held; spot and type are the random draws of a
\* power-up spawn.
ActiveFrame(dt, keys, spot, type) ==
    /\ game_started
    /\ ~game_over
    /\ calls < MaxFrames
    /\ calls' = calls + 1
    /\ round_time' = round_time + dt
    /\ shrunk_for' = IF ShrinkDue(round_time') THEN shrunk_for + dt ELSE shrunk_for
    /\ \E w1 \in {BeforeCollisions(dt, keys, spot, type)} :
          /\ SpawnAllowed(w1.radius, spot)
          /\ platform' = [platform EXCEPT !.radius = w1.radius]
          /\ spawn_timer' = w1.spawn_timer
          /\ \E nrm \in IF MayCoincide(w1) THEN Normals ELSE {Vec(1000, 0)} :
             \E w2 \in {CollisionLoop(w1, 1, nrm)} :
                 /\ powerups' = w2.powerups
                 /\ pair_log' = w2.log
                 /\ hitstop_duration' = w2.hd
                 /\ hitstop_elapsed' = w2.he
                 /\ IF RoundEnds(w2.alive)
                    THEN LET last == IF Len(w2.alive) > 0 THEN w2.alive[1] ELSE None
                         IN  /\ game_over' = TRUE
                             /\ winner' = last
                             /\ scores' = Award(scores, last)
                             /\ players' = IF last = None THEN w2.players
                                           ELSE [w2.players EXCEPT ![last].kills = @ + 1]
                    ELSE /\ players' = w2.players
                         /\ UNCHANGED <<game_over, winner, scores>>
    /\ UNCHANGED <<player_count, countdown, countdown_time, game_started, since_empty, since_buffer, roster,
                   auxVars>>

\* GameScene.handle_event, lines 129-130: R after the round has ended.
Restart ==
    /\ game_over
    /\ SetupRound(player_count)
    /\ UNCHANGED <<player_count, since_empty, since_buffer, roster, calls, pair_log, auxVars>>

\* MenuScene starting a game with n combatants: GameScene.on_enter.
EnterGame(n) ==
    /\ player_count' = n
    /\ SetupRound(n)
    /\ UNCHANGED <<since_empty, since_buffer, roster, calls, pair_log, auxVars>>

Next ==
    \/ \E dt \in FrameDTs : CountdownFrame(dt)
    \/ \E dt \in FrameDTs : GameOverFrame(dt)
    \/ \E dt \in FrameDTs, keys \in JointKeys(DOMAIN players) :
          \E spot \in IF Spawns(spawn_timer, powerups, dt) THEN SpawnSpots ELSE {CENTER},
             type \in IF Spawns(spawn_timer, powerups, dt) THEN FrameTypes ELSE {SPEED_BOOST} :
             ActiveFrame(dt, keys, spot, type)
    \/ Restart
    \/ \E n \in PlayerCounts : EnterGame(n)

Spec == Init /\ [][Next]_vars

\* ------------------------------------------------------------ round claims
\* A step that sets a round up: the R key or entry from the menu.
ResetStep == Restart \/ \E n \in PlayerCounts : EnterGame(n)

InCountdown == ~game_started
InActive == game_started /\ ~game_over
InGameOver == game_started /\ game_over

Alive(ps) == {i \in DOMAIN ps : ps[i].alive}

\* C4: once a combatant's alive flag is false no frame sets it true again
\* (only a new round setup does); from then on the frames leave the dead
\* combatant untouched - not moved, not collided with, no power-up applied -
\* and it neither counts towards the survivors of the win test nor wins.
C4_DeadStayOut ==
    [][~ResetStep =>
          /\ \A i \in DOMAIN players : ~players[i].alive => players'[i] = players[i]
          /\ (~game_over /\ game_over') => Cardinality(Alive(players')) <= 1
          /\ (~game_over /\ game_over' /\ winner' # None) => players[winner'].alive]_vars

\* A running round with a dead combatant in it has processed a further frame
\* (the hit-stop started by the elimination has advanced).
C4_Witness ==
    /\ InActive
    /\ \E i \in DOMAIN players : ~players[i].alive
    /\ hitstop_duration = HITSTOP_ELIMINATION
    /\ hitstop_elapsed > 0

\* C5: a frame of the running round ends the round in that same frame if and
\* only if at most one combatant is alive after it; the winner recorded is
\* the single survivor, or None when nobody survived.
C5_RoundEndsSameFrame ==
    [][(InActive /\ ~ResetStep) =>
          /\ game_over' <=> Cardinality(Alive(players')) <= 1
          /\ game_over' => IF Alive(players') = {} THEN winner' = None
                           ELSE Alive(players') = {winner'}
          /\ ~game_over' => winner' = None]_vars

\* A draw: the last combatants fell in the same frame.
C5_Witness ==
    /\ game_over
    /\ winner = None
    /\ Alive(players) = {}
    /\ Cardinality(DOMAIN players) = 3

\* C6: the frame that ends a round with a winner adds exactly 1 to the
\* winner's score and leaves the other scores alone; a draw changes no score;
\* no other frame changes a score, and a round that is over stays over until
\* it is reset, so a round scores at most once.
C6_ScoreOnce ==
    [][/\ ResetStep => scores' = scores
       /\ ~ResetStep =>
             /\ IF ~game_over /\ game_over' /\ winner' # None
                THEN scores' = [scores EXCEPT ![players'[winner'].player_id] = @ + 1]
                ELSE scores' = scores
             /\ game_over => (game_over' /\ winner' = winner)]_vars

\* A second round has been won by the winner of the first, and frames have
\* been processed since.
C6_Witness ==
    /\ game_over
    /\ winner # None
    /\ scores[winner] = 2
    /\ hitstop_elapsed > 0

\* C8: the radius equals PLATFORM_START_RADIUS as long as round_time is at most
\* SHRINK_START_TIME; Platform.update is called by exactly the frames of the
\* running round that leave round_time above SHRINK_START_TIME, with the
\* frame's dt, and by no frame of the countdown or after the round's end.
C8_ShrinkGated ==
    [][/\ round_time' <= SHRINK_START_TIME
             => platform'.radius = PLATFORM_START_RADIUS * RADIUS_UNIT
       /\ ~ResetStep =>
             IF InActive /\ round_time' > SHRINK_START_TIME
             THEN /\ shrunk_for' = shrunk_for + (round_time' - round_time)
                  /\ platform'.radius = PlatformUpdate(platform.radius, round_time' - round_time)
             ELSE UNCHANGED <<platform, shrunk_for>>]_vars

\* The first frame past the delay has shrunk the platform by its whole dt.
C8_Witness ==
    /\ round_time = SHRINK_START_TIME + 200
    /\ platform.radius = PLATFORM_START_RADIUS * RADIUS_UNIT - 200
    /\ shrunk_for = 200

Phase == IF ~game_started THEN "Countdown" ELSE IF game_over THEN "GameOver" ELSE "Active"

\* C9: apart from a reset, which leads back to the countdown, the round only
\* moves Countdown -> Active -> GameOver; the countdown value stays in 0..3,
\* a frame ticks it at most once and only when the dt accumulated since the
\* previous tick reaches 1000 ms, and the round becomes active on the third
\* tick.
C9_Countdown ==
    [][/\ countdown' \in 0 .. COUNTDOWN_START
       /\ game_started' <=> countdown' = 0
       /\ ResetStep => (Phase' = "Countdown" /\ countdown' = COUNTDOWN_START)
       /\ ~ResetStep =>
             /\ <<Phase, Phase'>> \in { <<"Countdown", "Countdown">>, <<"Countdown", "Active">>,
                                        <<"Active", "Active">>, <<"Active", "GameOver">>,
                                        <<"GameOver", "GameOver">> }
             /\ countdown' \in {countdown, countdown - 1}
             /\ \A dt \in FrameDTs : CountdownFrame(dt) =>
                   /\ countdown' = countdown - 1 <=> countdown_time + dt >= COUNTDOWN_TICK
                   /\ countdown' = countdown => countdown_time' = countdown_time + dt]_vars

\* The countdown has run out and the round has processed its first frame.
C9_Witness ==
    /\ InActive
    /\ countdown = 0
    /\ round_time = 200

\* C10: a frame of the countdown or after the round's end changes no
\* combatant, nor the platform, the power-ups, the spawn timer, round_time,
\* the winner or the scores; round_time is 0 until the first running frame.
C10_FrozenOutsideActive ==
    [][/\ (~ResetStep /\ ~InActive) =>
             UNCHANGED <<players, platform, powerups, spawn_timer, round_time,
                         winner, scores, shrunk_for>>
       /\ ~game_started' => round_time' = 0]_vars

\* Frames were processed after the end of a round that left a power-up on a
\* shrunken platform.
C10_Witness ==
    /\ InGameOver
    /\ hitstop_elapsed >= 1000
    /\ Len(powerups) > 0
    /\ platform.radius < PLATFORM_START_RADIUS * RADIUS_UNIT

\* ------------------------------------------------ the particle pool on its own
\* One ParticleSystem driven through its public operations in any order, for
\* at most MaxParticleCalls operations.
MaxParticleCalls == 4
ParticleDTs == {16, 1000}
\* The random draws of emit: a unit direction scaled by a factor between 0.5
\* and 1.5, in thousandths.
EmitDraws == {Vec(500, 0), Vec(0, -1500)}
EmitPoints == {CENTER, Vec(SCREEN_WIDTH + 40, CENTER.y)}
EmitCounts == {1, 10}
TrailMoves == {Vec(-400, 400)}
EXPLOSION_INTENSITY == 30

\* Particle.init
InitParticle(pt, x, y, velocity, lifetime, gravity) ==
    [pt EXCEPT !.pos = Vec(x, y), !.velocity = velocity, !.lifetime = lifetime,
               !.age = 0, !.gravity = gravity, !.active = TRUE]

\* Particle.update
ParticleUpdate(pt, dt) ==
    IF ~pt.active THEN pt
    ELSE LET age == pt.age + dt
             pos == Vec(pt.pos.x + Div(pt.velocity.x * dt, 1000),
                        pt.pos.y + Div(pt.velocity.y * dt, 1000))
             vy  == pt.velocity.y + Div(pt.gravity * dt, 1000)
             gone == \/ age >= pt.lifetime
                     \/ pos.x < -50 \/ pos.x > SCREEN_WIDTH + 50
                     \/ pos.y < -50 \/ pos.y > SCREEN_HEIGHT + 50
         IN  [pt EXCEPT !.age = age, !.pos = pos,
                        !.velocity = Vec(Div(pt.velocity.x * 98, 100), Div(vy * 98, 100)),
                        !.active = ~gone]

\* Mutant of GetInactive: a full pool hands out its first particle.
GetInactive_steal(ps) ==
    LET free == {k \in 1 .. Len(ps) : ~ps[k].active}
    IN  IF free = {} THEN 1 ELSE CHOOSE k \in free : \A j \in free : k <= j

\* ParticleSystem._get_inactive_particle: the index of the first inactive
\* particle, 0 for None.
GetInactive(ps) ==
    LET free == {k \in 1 .. Len(ps) : ~ps[k].active}
    IN  IF free = {} THEN 0 ELSE CHOOSE k \in free : \A j \in free : k <= j

\* ParticleSystem.emit: count particles at (x, y), each with the velocity
\* speed * draw, until the pool has no inactive particle left.
RECURSIVE emit(_, _, _, _, _, _, _, _)
emit(ps, x, y, count, speed, lifetime, gravity, draw) ==
    IF count = 0 THEN ps
    ELSE LET k == GetInactive(ps)
         IN  IF k = 0 THEN ps
             ELSE emit([ps EXCEPT ![k] = InitParticle(@, x, y,
                                             Vec(Div(speed * draw.x, 1000), Div(speed * draw.y, 1000)),
                                             lifetime, gravity)],
                       x, y, count - 1, speed, lifetime, gravity, draw)

ActiveParticles(ps) == {k \in 1 .. Len(ps) : ps[k].active}

InitParticles ==
    /\ SceneInit
    /\ players = [i \in {} |-> NewPlayer(0, 0, 0)]
    /\ since_empty = -1
    /\ since_buffer = -1
    /\ roster = <<>>
    /\ calls = 0

ParticleCall ==
    /\ calls < MaxParticleCalls
    /\ calls' = calls + 1
    /\ UNCHANGED <<player_count, players, platform, powerups, spawn_timer,
                   hitstop_duration, hitstop_elapsed, round_time, game_over,
                   winner, scores, countdown, countdown_time, game_started,
                   shrunk_for, pair_log, ai, since_empty, since_buffer, roster>>

\* ParticleSystem.emit with default speed, lifetime and gravity
PtEmit(pt, count, draw) ==
    /\ ParticleCall
    /\ particles' = emit(particles, pt.x, pt.y, count, 100, 1000, 0, draw)
    /\ UNCHANGED active_count

\* ParticleSystem.emit_explosion
PtEmitExplosion(pt, draw) ==
    /\ ParticleCall
    /\ particles' = emit(particles, pt.x, pt.y, EXPLOSION_INTENSITY, 200, 800, 100, draw)
    /\ UNCHANGED active_count

\* ParticleSystem.emit_trail: two particles thrown against the movement mv
\* (the 30 degree spread is left out).
PtEmitTrail(pt, mv, draw) ==
    /\ ParticleCall
    /\ particles' = emit(particles, pt.x, pt.y, 2, 50, 500, 0,
                         ScaleToLength(Vec(-mv.x, -mv.y), Length(draw)))
    /\ UNCHANGED active_count

\* ParticleSystem.emit_sparkle
PtEmitSparkle(pt, draw) ==
    /\ ParticleCall
    /\ particles' = emit(particles, pt.x, pt.y, 5, 150, 600, -50, draw)
    /\ UNCHANGED active_count

\* ParticleSystem.update
PtUpdate(dt) ==
    /\ ParticleCall
    /\ particles' = [k \in 1 .. Len(particles) |-> ParticleUpdate(particles[k], dt)]
    /\ active_count' = Cardinality(ActiveParticles(particles'))

\* ParticleSystem.clear
PtClear ==
    /\ ParticleCall
    /\ particles' = [k \in 1 .. Len(particles) |-> [particles[k] EXCEPT !.active = FALSE]]
    /\ active_count' = 0

EmitStep ==
    \/ \E pt \in EmitPoints, count \in EmitCounts, draw \in EmitDraws : PtEmit(pt, count, draw)
    \/ \E pt \in EmitPoints, draw \in EmitDraws : PtEmitExplosion(pt, draw)
    \/ \E pt \in EmitPoints, mv \in TrailMoves, draw \in EmitDraws : PtEmitTrail(pt, mv, draw)
    \/ \E pt \in EmitPoints, draw \in EmitDraws : PtEmitSparkle(pt, draw)

NextParticles ==
    \/ \E pt \in EmitPoints, count \in EmitCounts, draw \in EmitDraws : PtEmit(pt, count, draw)
    \/ \E pt \in EmitPoints, draw \in EmitDraws : PtEmitExplosion(pt, draw)
    \/ \E pt \in EmitPoints, mv \in TrailMoves, draw \in EmitDraws : PtEmitTrail(pt, mv, draw)
    \/ \E pt \in EmitPoints, draw \in EmitDraws : PtEmitSparkle(pt, draw)
    \/ \E dt \in ParticleDTs : PtUpdate(dt)
    \/ PtClear

SpecParticles == InitParticles /\ [][NextParticles]_vars

\* C11: under any sequence of emit, emit_explosion, emit_trail, emit_sparkle,
\* update and clear the pool keeps its size, so no more than PoolSize
\* particles are active; an emission never touches a particle that is active,
\* activates as many inactive ones as it asked for or as there are, and with
\* a full pool changes nothing.
C11_PoolBounded ==
    [][/\ Len(particles') = PoolSize
       /\ Cardinality(ActiveParticles(particles')) <= PoolSize
       /\ active_count' <= PoolSize
       /\ \/ /\ \A k \in ActiveParticles(particles) : particles'[k] = particles[k]
             /\ ActiveParticles(particles) \subseteq ActiveParticles(particles')
             /\ ActiveParticles(particles) = 1 .. PoolSize => particles' = particles
          \/ ~EmitStep]_vars

\* The pool is full of particles that have aged, and a further emission has
\* been made since they were updated (active_count lags behind).
C11_Witness ==
    /\ ActiveParticles(particles) = 1 .. PoolSize
    /\ \E k \in 1 .. PoolSize : particles[k].age > 0
    /\ \E k \in 1 .. PoolSize : particles[k].age = 0
    /\ active_count < PoolSize

\* C12: within one frame of a running round no unordered pair of combatants
\* is handed to collision detection and resolution more than once, however
\* often the two neighbourhood queries find it, and no combatant is paired
\* with itself.
C12_PairsOnce ==
    /\ \A j \in 1 .. Len(pair_log) : pair_log[j][1] # pair_log[j][2]
    /\ \A j, k \in 1 .. Len(pair_log) :
          {pair_log[j][1], pair_log[j][2]} = {pair_log[k][1], pair_log[k][2]} => j = k

\* Three combatants, one of them in reach of both others: each of the two
\* pairs was found from both sides and handed on once.
C12_Witness ==
    /\ Len(pair_log) = 2
    /\ Cardinality(Alive(players)) = 3

\* -------------------------------------------------- combatants in contact
\* Three combatants placed on and around the platform centre, any of them
\* possibly overlapping, with any of a few velocities; then at most
\* MaxContactCalls calls of resolve_collision or of the frame's collision pass.
MaxContactCalls == 2
ContactOffsets == {Vec(20, 0), Vec(-12, 16), Vec(0, -30), Vec(0, 0)}
ContactVels == {Vec(0, 0), Vec(300, 0), Vec(-200, 150)}

InitContact ==
    /\ SceneInit
    /\ \E o1, o2 \in ContactOffsets, v0, v1, v2 \in ContactVels :
          players = [i \in 0 .. 2 |->
                       [NewPlayer(CENTER.x + (IF i = 1 THEN o1.x ELSE IF i = 2 THEN o2.x ELSE 0),
                                  CENTER.y + (IF i = 1 THEN o1.y ELSE IF i = 2 THEN o2.y ELSE 0), i)
                          EXCEPT !.vel = IF i = 0 THEN v0 ELSE IF i = 1 THEN v1 ELSE v2]]
    /\ since_empty = -1
    /\ since_buffer = -1
    /\ roster = <<>>
    /\ calls = 0

\* GameScene.update, lines 226-262: the collision pass over the combatants ps,
\* all alive and filed in the grid, with alive_players in the given order.
PassWith(ps, order, nrm) ==
    CollisionLoop([ players |-> ps, alive |-> order,
                    cells |-> [i \in DOMAIN ps |-> Cell(ps[i].pos)],
                    checked |-> {}, log |-> <<>>,
                    hd |-> hitstop_duration, he |-> hitstop_elapsed ], 1, nrm)

\* resolve_collision(players[a], players[b]) on a pair in contact.
XResolve(a, b, nrm) ==
    /\ calls < MaxContactCalls
    /\ calls' = calls + 1
    /\ a # b
    /\ check_collision(players[a], players[b])
    /\ \E r \in {resolve_collision(players[a], players[b], nrm)} :
          players' = [players EXCEPT ![a] = r[1], ![b] = r[2]]
    /\ UNCHANGED <<sceneVars, since_empty, since_buffer, roster>>

\* The collision pass of a frame: alive_players holds the combatants in the
\* order of the players list.
XCollisionPass(nrm) ==
    /\ calls < MaxContactCalls
    /\ calls' = calls + 1
    /\ \E w \in {PassWith(players, <<0, 1, 2>>, nrm)} :
          /\ players' = w.players
          /\ pair_log' = w.log
          /\ hitstop_duration' = w.hd
          /\ hitstop_elapsed' = w.he
    /\ UNCHANGED <<player_count, platform, powerups, spawn_timer, round_time,
                   game_over, winner, scores, countdown, countdown_time,
                   game_started, shrunk_for, auxVars, since_empty, since_buffer, roster>>

NextContact ==
    \/ \E a, b \in 0 .. 2, nrm \in Normals : XResolve(a, b, nrm)
    \/ \E nrm \in Normals : XCollisionPass(nrm)

SpecContact == InitContact /\ [][NextContact]_vars

Coincide(e1, e2) == e1.pos = e2.pos

\* C13: for two overlapping combatants whose centres do not coincide,
\* resolve_collision(a, b) and resolve_collision(b, a) leave a with the same
\* position and velocity and b with the same position and velocity.
C13_ResolveSymmetric ==
    [][\A a, b \in 0 .. 2 :
          (/\ a # b
           /\ check_collision(players[a], players[b])
           /\ ~Coincide(players[a], players[b])
           /\ \E nrm \in Normals : XResolve(a, b, nrm))
          => \A nrm \in Normals :
                LET r == resolve_collision(players[b], players[a], nrm)
                IN  players'[a] = r[2] /\ players'[b] = r[1]]_vars

\* A pair closing in on each other was resolved: impulse, push and tangential
\* force were all applied.
C13_Witness ==
    /\ calls = 1
    /\ pair_log = <<>>
    /\ players[0].vel.y # 0
    /\ players[0].pos # CENTER
    /\ players[1].vel.x > 300

\* The orders in which alive_players could list the three combatants.
PassOrders == { <<0, 1, 2>>, <<0, 2, 1>>, <<1, 0, 2>>, <<1, 2, 0>>, <<2, 0, 1>>, <<2, 1, 0>> }

\* The unordered pairs of a pair log that were in contact when their turn
\* came: the pairs resolved.  Replays the log from the combatants ps.
RECURSIVE ResolvedPairs(_, _, _, _)
ResolvedPairs(ps, log, k, nrm) ==
    IF k > Len(log) THEN {}
    ELSE LET a == log[k][1]
             b == log[k][2]
         IN  IF check_collision(ps[a], ps[b])
             THEN LET r == resolve_collision(ps[a], ps[b], nrm)
                  IN  {{a, b}} \cup ResolvedPairs([ps EXCEPT ![a] = r[1], ![b] = r[2]], log, k + 1, nrm)
             ELSE ResolvedPairs(ps, log, k + 1, nrm)

\* C14: when several pairs are in contact in one frame, the positions and
\* velocities after the collision pass and the set of pairs resolved are the
\* same whatever the order in which the combatants are processed.
C14_OrderIndependent ==
    [][\A nrm \in Normals : XCollisionPass(nrm) =>
          \A order \in PassOrders :
             LET w == PassWith(players, order, nrm)
             IN  /\ w.players = players'
                 /\ ResolvedPairs(players, w.log, 1, nrm)
                       = ResolvedPairs(players, pair_log', 1, nrm)]_vars

\* A hit-stop window is in effect.
InHitstop == hitstop_elapsed < hitstop_duration

\* C15: in a frame of the running round that starts inside a hit-stop window,
\* the platform (when it is due to shrink) and every alive combatant (seen
\* through its running dash cooldown) are advanced by a tenth of the frame's
\* dt, not by the frame's dt.
C15_ScaledDelta ==
    [][(InActive /\ ~ResetStep /\ InHitstop) =>
          LET dt == round_time' - round_time
          IN  /\ ShrinkDue(round_time')
                    => platform'.radius = PlatformUpdate(platform.radius, Div(dt, 10))
              /\ \A i \in DOMAIN players :
                    (players[i].alive /\ players[i].dash_cooldown > 0)
                       => players'[i].dash_cooldown \in
                             {players[i].dash_cooldown - Div(dt, 10), PLAYER_DASH_COOLDOWN}]_vars

\* --------------------------------------------------------- the AI planner
\* Combatant 0 is an AIPlayer; its Player fields are players[0] and the fields
\* AIPlayer adds are the record ai.  Directions are in thousandths.
Difficulties == {"easy", "medium", "hard", "expert"}

\* AIPlayer._get_reaction_time
get_reaction_time(d) ==
    CASE d = "easy" -> 500 [] d = "medium" -> 250 [] d = "hard" -> 100
      [] d = "expert" -> 50 [] OTHER -> 250

\* AIPlayer._get_aim_accuracy, in thousandths
get_aim_accuracy(d) ==
    CASE d = "easy" -> 600 [] d = "medium" -> 800 [] d = "hard" -> 950
      [] d = "expert" -> 990 [] OTHER -> 800

\* AIPlayer.__init__.  target_direction and should_dash exist only once a plan
\* has set them (planned).  ticks, elapsed and gap are history: the number of
\* calls of _make_decision, the dt handed to update since the latest of them
\* and the dt that had been handed to update between the latest two.
NewAI(d) ==
    [ present |-> TRUE, difficulty |-> d, state |-> "opportunistic",
      reaction_time |-> get_reaction_time(d), aim_accuracy |-> get_aim_accuracy(d),
      decision_delay |-> 0, target_player |-> None,
      planned |-> FALSE, target_direction |-> Vec(0, 0), should_dash |-> FALSE,
      fake_keys |-> NoKeys, ticks |-> 0, elapsed |-> 0, gap |-> 0 ]

Dist2(a, b) == (a.x - b.x) * (a.x - b.x) + (a.y - b.y) * (a.y - b.y)

\* The square of n / 500 pixels, rounded down, and whether it is whole.
SqFloor(n) ==
    LET A == n \div 500
        B == n % 500
    IN  A * A + (1000 * A * B + B * B) \div 250000
SqWhole(n) == (1000 * (n \div 500) * (n % 500) + (n % 500) * (n % 500)) % 250000 = 0

\* length > n / 500 and length < n / 500 for a vector of squared length d2
FartherThan(d2, n) == d2 > SqFloor(n)
CloserThan(d2, n) == d2 < SqFloor(n) \/ (d2 = SqFloor(n) /\ ~SqWhole(n))

\* The living combatants other than me.
LivingOthers(ps, me) == {i \in DOMAIN ps : i # me /\ ps[i].alive}

\* Mutant of assess_state: the number of threats is looked at first.
assess_state_threats_first(ps, me, radius) ==
    LET threats == Cardinality({i \in LivingOthers(ps, me) :
                                   Dist2(ps[i].pos, ps[me].pos) < 150 * 150})
    IN  IF threats >= 2 THEN "defensive"
        ELSE IF threats = 1 THEN "aggressive"
        ELSE IF FartherThan(Dist2(ps[me].pos, CENTER), 7 * radius) THEN "survival"
        ELSE "opportunistic"

\* AIPlayer._assess_state.  health_ratio < 0.3 is distance > 0.7 radius,
\* that is 7 * radius / 500 pixels for a radius in 1/RADIUS_UNIT pixels.
assess_state(ps, me, radius) ==
    LET threats == Cardinality({i \in LivingOthers(ps, me) :
                                   Dist2(ps[i].pos, ps[me].pos) < 150 * 150})
    IN  IF FartherThan(Dist2(ps[me].pos, CENTER), 7 * radius) THEN "survival"
        ELSE IF threats >= 2 THEN "defensive"
        ELSE IF threats = 1 THEN "aggressive"
        ELSE "opportunistic"

\* Vector2.normalize of a vector that is not zero, in thousandths.
Normalize(v) == ScaleToLength(v, 1000)

\* direction + uniform noise, normalised.  draw is the pair of random.uniform
\* results as thousandths of the noise amplitude; scale is 50 or 30.
Noisy(v, a, scale, draw) ==
    LET n == (1000 - a.aim_accuracy) * scale
        d == Normalize(v)
    IN  Normalize(Vec(d.x + Div(n * draw.x, 1000), d.y + Div(n * draw.y, 1000)))

\* AIPlayer._plan_survival
plan_survival(a, p, draw) ==
    LET to_center == Vec(CENTER.x - p.pos.x, CENTER.y - p.pos.y)
        d2 == Dist2(CENTER, p.pos)
    IN  IF d2 > 10 * 10
        THEN [a EXCEPT !.planned = TRUE,
                       !.target_direction = Noisy(to_center, a, 50, draw),
                       !.should_dash = d2 > 100 * 100 /\ p.dash_charges > 0]
        ELSE [a EXCEPT !.planned = TRUE, !.target_direction = Vec(0, 0),
                       !.should_dash = FALSE]

\* AIPlayer._predict_position: 300 ms ahead
predict_position(p) == Vec(p.pos.x + Div(p.vel.x * 3, 10), p.pos.y + Div(p.vel.y * 3, 10))

\* The nearest living other combatant, the first of the list among equals.
Nearest(ps, me) ==
    CHOOSE i \in LivingOthers(ps, me) :
       \A j \in LivingOthers(ps, me) :
          \/ Dist2(ps[i].pos, ps[me].pos) < Dist2(ps[j].pos, ps[me].pos)
          \/ Dist2(ps[i].pos, ps[me].pos) = Dist2(ps[j].pos, ps[me].pos) /\ i <= j

\* AIPlayer._plan_opportunistic.  ideal_distance +- 20 is
\* (3 * radius +- 10000) / 500 pixels.  Normalising the zero vector raises:
\* the plan is left as it was.
plan_opportunistic(a, p, radius) ==
    LET to_center == Vec(CENTER.x - p.pos.x, CENTER.y - p.pos.y)
        d2 == Dist2(CENTER, p.pos)
    IN  IF d2 = 0 THEN a
        ELSE IF FartherThan(d2, 3 * radius + 10000)
        THEN [a EXCEPT !.planned = TRUE, !.target_direction = Normalize(to_center),
                       !.should_dash = FALSE]
        ELSE IF CloserThan(d2, 3 * radius - 10000)
        THEN [a EXCEPT !.planned = TRUE,
                       !.target_direction = Vec(-Normalize(to_center).x, -Normalize(to_center).y),
                       !.should_dash = FALSE]
        ELSE [a EXCEPT !.planned = TRUE,
                       !.target_direction = Normalize(Vec(-to_center.y, to_center.x)),
                       !.should_dash = FALSE]

\* AIPlayer._plan_attack.  Without a living opponent nothing is assigned.
plan_attack(a, ps, me, draw) ==
    IF LivingOthers(ps, me) = {} THEN a
    ELSE LET nearest == Nearest(ps, me)
             prediction == predict_position(ps[nearest])
             to_target == Vec(prediction.x - ps[me].pos.x, prediction.y - ps[me].pos.y)
             d2 == Dist2(prediction, ps[me].pos)
         IN  IF d2 > 10 * 10
             THEN [a EXCEPT !.target_player = nearest, !.planned = TRUE,
                            !.target_direction = Noisy(to_target, a, 30, draw),
                            !.should_dash = /\ d2 > 80 * 80
                                            /\ d2 < 200 * 200
                                            /\ ps[me].dash_charges > 0]
             ELSE [a EXCEPT !.target_player = nearest, !.planned = TRUE,
                            !.target_direction = Vec(0, 0), !.should_dash = FALSE]

\* Mutant of plan_defense: a dash is requested with any charge left.
plan_defense_any_charge(a, ps, me, radius) ==
    IF \E i \in LivingOthers(ps, me) : Dist2(ps[i].pos, ps[me].pos) < 200 * 200
    THEN [a EXCEPT !.planned = TRUE, !.should_dash = ps[me].dash_charges > 0]
    ELSE plan_opportunistic(a, ps[me], radius)

\* AIPlayer._plan_defense.  away_from_threats * 0.6 + to_center.normalize() * 0.4,
\* in thousandths; at the very centre normalize raises and the plan is left
\* as it was.
plan_defense(a, ps, me, radius) ==
    LET threats == {i \in LivingOthers(ps, me) :
                       Dist2(ps[i].pos, ps[me].pos) < 200 * 200}
        count == Cardinality(threats)
        SumX[S \in SUBSET threats] ==
            IF S = {} THEN 0
            ELSE LET i == CHOOSE i \in S : TRUE IN ps[i].pos.x + SumX[S \ {i}]
        SumY[S \in SUBSET threats] ==
            IF S = {} THEN 0
            ELSE LET i == CHOOSE i \in S : TRUE IN ps[i].pos.y + SumY[S \ {i}]
        p == ps[me]
    IN  IF count = 0 THEN plan_opportunistic(a, p, radius)
        ELSE IF p.pos = CENTER THEN a
        ELSE LET away == Vec(p.pos.x * 1000 - Div(SumX[threats] * 1000, count),
                             p.pos.y * 1000 - Div(SumY[threats] * 1000, count))
                 tcn == Normalize(Vec(CENTER.x - p.pos.x, CENTER.y - p.pos.y))
                 safe == Vec(Div(away.x * 6, 10) + Div(tcn.x * 4, 10),
                             Div(away.y * 6, 10) + Div(tcn.y * 4, 10))
             IN  [a EXCEPT !.planned = TRUE,
                           !.target_direction = IF safe = Vec(0, 0) THEN safe
                                                ELSE Normalize(safe),
                           !.should_dash = p.dash_charges > 1]

\* AIPlayer._make_decision
make_decision(a, ps, me, radius, draw) ==
    LET st == assess_state(ps, me, radius)
        a1 == [a EXCEPT !.state = st]
    IN  IF st = "survival" THEN plan_survival(a1, ps[me], draw)
        ELSE IF st = "aggressive" THEN plan_attack(a1, ps, me, draw)
        ELSE IF st = "defensive" THEN plan_defense(a1, ps, me, radius)
        ELSE plan_opportunistic(a1, ps[me], radius)

\* AIPlayer._execute_action: the simulated keys
execute_action(a) ==
    IF ~a.planned THEN a
    ELSE LET d == a.target_direction
             go == d.x * d.x + d.y * d.y > 100 * 100
         IN  [a EXCEPT !.fake_keys =
                  Keys(go /\ d.y < -300, go /\ d.y > 300 , go /\ d.x < -300,
                       go /\ d.x > 300, a.should_dash)]

\* The keys of the dict AIPlayer.get_keys returns: _execute_action enters
\* only the keys that are down.
KeyNames == {"up", "down", "left", "right", "dash"}
Supplied(a) == {k \in KeyNames : a.fake_keys[k]}

\* Player.update as AIPlayer.update reaches it from AIManager.update:
\* pygame.key.get_pressed then returns the dict of the simulated keys.  A
\* combatant that is not dashing reads all five keys (lines 95-101 and 118)
\* and the read of a key that is not in the dict raises KeyError; the cooldown
\* and the buffer have been updated by then.
PlayerUpdateFaked(p, dt, a) ==
    LET p1 == UpdateBuffer(UpdateCooldown(p, dt), dt)
    IN  IF p1.is_dashing \/ Supplied(a) = KeyNames
        THEN UpdateMotion(UpdateDash(p1, dt, a.fake_keys), dt)
        ELSE p1

\* Mutant of DecisionDue: a decision on every frame.
DecisionDue_every_frame(delay, reaction) == delay > 0

\* AIPlayer.update, line 65
DecisionDue(delay, reaction) == delay >= reaction

\* AIPlayer.update, lines 58-70, on the planner fields.
AIUpdate(a, ps, me, radius, dt, draw) ==
    IF ~ps[me].alive THEN a
    ELSE IF DecisionDue(a.decision_delay + dt, a.reaction_time)
    THEN execute_action(make_decision([a EXCEPT !.decision_delay = 0,
                                                !.ticks = @ + 1,
                                                !.gap = a.elapsed + dt,
                                                !.elapsed = 0],
                                      ps, me, radius, draw))
    ELSE execute_action([a EXCEPT !.decision_delay = @ + dt, !.elapsed = @ + dt])

\* ------------------------------------------------ an AI among opponents
\* The AI (combatant 0) and two opponents on a platform; AIManager.update,
\* eliminations, respawns and platform shrinking in any order, for at most
\* MaxAICalls operations.
MaxAICalls == 4
AIDTs == {50, 500}
AISpots == {Vec(790, 360), Vec(860, 360), Vec(700, 360), Vec(730, 360)}
Opp1Spots == {Vec(565, 490), Vec(800, 420), Vec(940, 360)}
Opp2Spots == {Vec(565, 230), Vec(790, 300)}
OppVel == Vec(-200, 100)
NoiseDraws == {Vec(0, 0), Vec(1000, -500)}
AIShrinkDTs == {5000}

InitAI ==
    /\ SceneFields
    /\ \E d \in Difficulties, s0 \in AISpots, s1 \in Opp1Spots, s2 \in Opp2Spots :
          /\ ai = NewAI(d)
          /\ players = [i \in 0 .. 2 |->
                          IF i = 0 THEN NewPlayer(s0.x, s0.y, 0)
                          ELSE [NewPlayer(IF i = 1 THEN s1.x ELSE s2.x,
                                          IF i = 1 THEN s1.y ELSE s2.y, i)
                                  EXCEPT !.vel = OppVel]]
    /\ since_empty = -1
    /\ since_buffer = -1
    /\ roster = << <<0, 0>> >>
    /\ calls = 0

AICall ==
    /\ calls < MaxAICalls
    /\ calls' = calls + 1
    /\ UNCHANGED <<player_count, powerups, spawn_timer, hitstop_duration,
                   hitstop_elapsed, round_time, game_over, winner, scores,
                   countdown, countdown_time, game_started, pair_log,
                   particles, active_count, since_empty, since_buffer, roster>>

\* AIManager.update(dt, players, platform)
AgUpdate(dt, draw) ==
    /\ AICall
    /\ ai' = AIUpdate(ai, players, 0, platform.radius, dt, draw)
    /\ players' = [players EXCEPT ![0] = IF @.alive THEN PlayerUpdateFaked(@, dt, ai') ELSE @]
    /\ UNCHANGED <<platform, shrunk_for>>

\* Player.eliminate on a living combatant
AgEliminate(i) ==
    /\ AICall
    /\ players[i].alive
    /\ players' = [players EXCEPT ![i] = eliminate(@)]
    /\ UNCHANGED <<platform, shrunk_for, ai>>

\* Player.respawn of an eliminated combatant at a spot
AgRespawn(i, spot) ==
    /\ AICall
    /\ ~players[i].alive
    /\ players' = [players EXCEPT ![i] = respawn(@, spot.x, spot.y)]
    /\ UNCHANGED <<platform, shrunk_for, ai>>

\* Platform.update(dt)
AgShrink(dt) ==
    /\ AICall
    /\ platform' = [platform EXCEPT !.radius = PlatformUpdate(@, dt)]
    /\ shrunk_for' = shrunk_for + dt
    /\ UNCHANGED <<players, ai>>

NextAI ==
    \/ \E dt \in AIDTs, draw \in NoiseDraws : AgUpdate(dt, draw)
    \/ \E i \in 0 .. 2 : AgEliminate(i)
    \/ \E i \in 0 .. 2, spot \in AISpots : AgRespawn(i, spot)
    \/ \E dt \in AIShrinkDTs : AgShrink(dt)

SpecAI == InitAI /\ [][NextAI]_vars

\* A step in which the AI makes a decision.
DecisionTick == ai'.ticks # ai.ticks

\* The living opponents within 150 pixels of the AI.
Within150 ==
    {i \in {1, 2} : players[i].alive /\ Dist2(players[i].pos, players[0].pos) < 150 * 150}

\* (platform.radius - distance from the centre) / platform.radius < 0.3
NearEdge == FartherThan(Dist2(players[0].pos, CENTER), 7 * platform.radius)

\* C16: at each decision tick the tactical state is Survival if the AI is
\* within 30% of the radius from the edge, whatever the number of opponents
\* nearby; otherwise Defensive with two or more living opponents within 150,
\* Aggressive with exactly one, Opportunistic with none.  The dead and the AI
\* itself do not count.
C16_Assessment ==
    [][DecisionTick =>
          ai'.state = IF NearEdge THEN "survival"
                      ELSE IF Cardinality(Within150) >= 2 THEN "defensive"
                      ELSE IF Cardinality(Within150) = 1 THEN "aggressive"
                      ELSE "opportunistic"]_vars

\* The AI has decided on Survival near the edge with two living opponents
\* within 150 pixels of it.
C16_Witness ==
    /\ ai.present /\ ai.ticks > 0
    /\ ai.state = "survival"
    /\ NearEdge
    /\ Within150 = {1, 2}

\* C17: the tactical state, the planned direction and the dash request change
\* only on decision ticks; a frame makes at most one decision; a decision
\* comes after at least reaction_time (500, 250, 100, 50 ms for easy, medium,
\* hard, expert) of dt accumulated since the previous one; an AI that is not
\* alive decides nothing.
C17_DecisionTicks ==
    [][ai.present =>
          /\ ai'.ticks \in {ai.ticks, ai.ticks + 1}
          /\ (\/ ai'.state # ai.state
              \/ ai'.planned # ai.planned
              \/ ai'.target_direction # ai.target_direction
              \/ ai'.should_dash # ai.should_dash) => DecisionTick
          /\ DecisionTick =>
                /\ players[0].alive
                /\ ai'.gap >= (CASE ai.difficulty = "easy" -> 500
                                 [] ai.difficulty = "medium" -> 250
                                 [] ai.difficulty = "hard" -> 100
                                 [] ai.difficulty = "expert" -> 50)]_vars

\* Two decisions have been made and a frame without a decision has followed.
C17_Witness ==
    /\ ai.present /\ ai.ticks = 2
    /\ ai.elapsed > 0

\* C18: after every decision tick the cached target is empty or alive.
C18_TargetAlive ==
    [][DecisionTick =>
          \/ ai'.target_player = None
          \/ players'[ai'.target_player].alive]_vars

\* ------------------------------------------------ the plans on their own
\* The same AI and opponents; the four planning methods called one at a time
\* on the combatants as they stand, between eliminations.
PlSurvival(draw) ==
    /\ AICall
    /\ ai' = plan_survival(ai, players[0], draw)
    /\ UNCHANGED <<players, platform, shrunk_for>>

PlAttack(draw) ==
    /\ AICall
    /\ ai' = plan_attack(ai, players, 0, draw)
    /\ UNCHANGED <<players, platform, shrunk_for>>

PlDefense ==
    /\ AICall
    /\ ai' = plan_defense(ai, players, 0, platform.radius)
    /\ UNCHANGED <<players, platform, shrunk_for>>

PlOpportunistic ==
    /\ AICall
    /\ ai' = plan_opportunistic(ai, players[0], platform.radius)
    /\ UNCHANGED <<players, platform, shrunk_for>>

NextPlanner ==
    \/ \E draw \in NoiseDraws : PlSurvival(draw)
    \/ \E draw \in NoiseDraws : PlAttack(draw)
    \/ PlDefense
    \/ PlOpportunistic
    \/ \E i \in 1 .. 2 : AgEliminate(i)

SpecPlanner == InitAI /\ [][NextPlanner]_vars

\* Aggressive planning with no living opponent, Defensive planning with no
\* living opponent within 200 pixels.
AttackAlone == LivingOthers(players, 0) = {} /\ \E draw \in NoiseDraws : PlAttack(draw)
DefenseAlone ==
    /\ \A i \in LivingOthers(players, 0) :
          Dist2(players[i].pos, players[0].pos) >= 200 * 200
    /\ PlDefense

PALETTE_SIZE == 4

\* GameScene._setup_round as it runs for any player_count n, ai_count being 0.
\* The flags are reset and the platform replaced first; 360 / 0 raises at line
\* 87 with an empty players list, PLAYER_COLORS[4] raises at line 95 with four
\* combatants created, and in both cases the systems are not reset.
SetupRoundAny(n) ==
    /\ round_time' = 0
    /\ game_over' = FALSE
    /\ winner' = None
    /\ countdown' = COUNTDOWN_START
    /\ countdown_time' = 0
    /\ game_started' = FALSE
    /\ platform' = [radius |-> PLATFORM_START_RADIUS * RADIUS_UNIT]
    /\ shrunk_for' = 0
    /\ IF n = 0
       THEN /\ players' = [i \in {} |-> NewPlayer(0, 0, 0)]
            /\ UNCHANGED <<hitstop_duration, hitstop_elapsed, powerups>>
       ELSE IF n > PALETTE_SIZE
       THEN /\ players' = [i \in 0 .. PALETTE_SIZE - 1 |->
                             NewPlayer(SpawnPoint(i, n).x, SpawnPoint(i, n).y, i)]
            /\ UNCHANGED <<hitstop_duration, hitstop_elapsed, powerups>>
       ELSE /\ players' = [i \in 0 .. n - 1 |->
                             NewPlayer(SpawnPoint(i, n).x, SpawnPoint(i, n).y, i)]
            /\ hitstop_duration' = 0
            /\ hitstop_elapsed' = 0
            /\ powerups' = <<>>
    /\ UNCHANGED <<spawn_timer, scores>>

\* The player counts a caller may hand to the scene, and the countdown frames.
SetupCounts == 0 .. 5
SetupDTs == {200, 500, 1000}

\* GameScene.player_count is assigned and the scene entered: on_enter.
SuEnter(n) ==
    /\ player_count' = n
    /\ SetupRoundAny(n)
    /\ UNCHANGED <<since_empty, since_buffer, roster, calls, pair_log, auxVars>>

NextSetup ==
    \/ \E n \in SetupCounts : SuEnter(n)
    \/ \E dt \in SetupDTs : CountdownFrame(dt)

SpecSetup == Init /\ [][NextSetup]_vars

\* The scene is entered with a count of 0 or beyond the palette.
BadEnter == \E n \in SetupCounts : (n = 0 \/ n > PALETTE_SIZE) /\ SuEnter(n)

\* C20: a round set up with a combatant count of 0 or of more than 4 is
\* refused: the combatants, the platform and the round flags stay as they were.
C20_SetupRefused ==
    [][BadEnter =>
          /\ players' = players
          /\ platform' = platform
          /\ round_time' = round_time /\ game_over' = game_over /\ winner' = winner
          /\ countdown' = countdown /\ countdown_time' = countdown_time
          /\ game_started' = game_started]_vars

\* ------------------------------------------------------- rounds, continued
\* C21: after a round setup every piece of per-round state is that of a first
\* round: countdown 3, clock 0, not over, no winner, platform at the start
\* radius, every combatant alive on the spawn ring with its starting dash
\* state, no active particle, no power-up and the spawn scheduler's
\* accumulated time at 0.
C21_FreshRound ==
    [][ResetStep =>
          /\ countdown' = COUNTDOWN_START /\ countdown_time' = 0
          /\ round_time' = 0 /\ ~game_over' /\ ~game_started' /\ winner' = None
          /\ platform'.radius = PLATFORM_START_RADIUS * RADIUS_UNIT
          /\ \A i \in DOMAIN players' :
                players'[i] = NewPlayer(SpawnPoint(i, player_count').x,
                                        SpawnPoint(i, player_count').y, i)
          /\ ActiveParticles(particles') = {}
          /\ powerups' = <<>>
          /\ spawn_timer' = 0]_vars

TotalScore(sc) == sc[0] + sc[1] + sc[2] + sc[3]

\* C22: the scores persist across rounds.  They start at 0, a round setup
\* leaves them unchanged, no score ever decreases and the total grows by 1
\* exactly in the frame that ends a round with a winner, so the total is the
\* number of rounds won.
C22_ScoresPersist ==
    /\ TotalScore(scores) = 0
    /\ [][/\ ResetStep => scores' = scores
          /\ \A i \in DOMAIN scores : scores'[i] >= scores[i]
          /\ TotalScore(scores') =
                TotalScore(scores) + (IF ~game_over /\ game_over' /\ winner' # None
                                      THEN 1 ELSE 0)]_vars

\* Two rounds have been won, by different combatants, and a third round has
\* been set up.
C22_Witness ==
    /\ ~game_started /\ ~game_over
    /\ scores[0] = 1
    /\ scores[1] = 1

\* ------------------------------------------- the power-up manager alone
\* Two combatants standing 40 pixels apart around the centre and the
\* PowerUpManager: update and the frame's pickup pass in any order, for at
\* most MaxPowerupCalls calls.  round_time is the time handed to update.
MaxPowerupCalls == 6
PmDTs == {4000, 7000}
PmSpots == {CENTER, Vec(CENTER.x - 40, CENTER.y), Vec(CENTER.x, CENTER.y - 60)}
PmTypes == SpawnTypes

InitPowerups ==
    /\ SceneInit
    /\ players = [i \in 0 .. 1 |-> NewPlayer(CENTER.x - 20 + 40 * i, CENTER.y, i)]
    /\ since_empty = -1
    /\ since_buffer = -1
    /\ roster = <<>>
    /\ calls = 0

\* PowerUpManager.update(dt, platform)
PmUpdate(dt, spot, type) ==
    /\ calls < MaxPowerupCalls
    /\ calls' = calls + 1
    /\ SpawnAllowed(platform.radius, spot)
    /\ round_time' = round_time + dt
    /\ \E pm \in {PowerupsUpdate(powerups, spawn_timer, dt, spot, type)} :
          /\ powerups' = pm.powerups
          /\ spawn_timer' = pm.spawn_timer
    /\ UNCHANGED <<player_count, players, platform, hitstop_duration, hitstop_elapsed,
                   game_over, winner, scores, countdown, countdown_time,
                   game_started, shrunk_for, pair_log, auxVars, since_empty, since_buffer, roster>>

\* GameScene.update, lines 199-209: check_pickups and _apply_powerup for
\* combatant i, on the pair <<combatants, power-up list>>.
PickupStep(w, i) ==
    LET k == PickupIndex(w[2], w[1][i])
    IN  IF ~w[1][i].alive \/ k = 0 THEN w
        ELSE << [w[1] EXCEPT ![i] = apply_powerup(@, w[2][k].type)], RemoveAt(w[2], k) >>

\* The pickup checks of one frame, in the order of the players list.
PmPickups ==
    /\ calls < MaxPowerupCalls
    /\ calls' = calls + 1
    /\ \E w \in {PickupStep(PickupStep(<<players, powerups>>, 0), 1)} :
          /\ players' = w[1]
          /\ powerups' = w[2]
    /\ UNCHANGED <<player_count, platform, spawn_timer, hitstop_duration,
                   hitstop_elapsed, round_time, game_over, winner, scores,
                   countdown, countdown_time, game_started, shrunk_for,
                   pair_log, auxVars, since_empty, since_buffer, roster>>

NextPowerups ==
    \/ \E dt \in PmDTs :
          \E spot \in IF Spawns(spawn_timer, powerups, dt) THEN PmSpots ELSE {CENTER},
             type \in IF Spawns(spawn_timer, powerups, dt) THEN PmTypes ELSE {SPEED_BOOST} :
             PmUpdate(dt, spot, type)
    \/ PmPickups

SpecPowerups == InitPowerups /\ [][NextPowerups]_vars

\* The power-ups of the list that the frame just taken has created: every
\* older one has aged by more than the frame's dt.
Spawned == {k \in DOMAIN powerups' : powerups'[k].age <= round_time' - round_time}

\* C23: there are never more than 3 power-ups and each one in the list is
\* still within its lifetime; a frame spawns at most one, and only when the
\* scheduler's accumulated time reaches the spawn interval with fewer than 3
\* power-ups in the list.
C23_PowerupCap ==
    [][/\ Len(powerups') <= MAX_POWERUPS
       /\ \A k \in DOMAIN powerups' : powerups'[k].age < POWERUP_LIFETIME
       /\ ~ResetStep =>
             /\ Cardinality(Spawned) <= 1
             /\ Len(powerups') <= Len(powerups) + 1
             /\ Spawned # {} =>
                   /\ spawn_timer + (round_time' - round_time) >= SPAWN_INTERVAL
                   /\ Len(powerups) < MAX_POWERUPS
                   /\ spawn_timer' = 0]_vars

\* Two power-ups are in the list, the second just spawned.
C23_Witness ==
    /\ Len(powerups) = 2
    /\ spawn_timer = 0
    /\ round_time > 0

\* The power-ups of a list within pickup distance of a combatant.
InReach(pus, p) ==
    {k \in 1 .. Len(pus) :
        Dist2(pus[k].pos, p.pos) < (POWERUP_RADIUS + PLAYER_RADIUS) * (POWERUP_RADIUS + PLAYER_RADIUS)}
Earliest(S) == CHOOSE k \in S : \A j \in S : k <= j

\* C24: in the pickup pass of a frame the first combatant takes the earliest
\* power-up in its reach and only that one; the second combatant takes the
\* earliest in its reach among those left; each gets the effect of the one it
\* took and of no other, what is taken leaves the list and nothing else does.
C24_PickupOnce ==
    [][PmPickups =>
          LET r0 == InReach(powerups, players[0])
              left == IF r0 = {} THEN powerups ELSE RemoveAt(powerups, Earliest(r0))
              r1 == InReach(left, players[1])
          IN  /\ players'[0] = IF r0 = {} THEN players[0]
                               ELSE apply_powerup(players[0], powerups[Earliest(r0)].type)
              /\ players'[1] = IF r1 = {} THEN players[1]
                               ELSE apply_powerup(players[1], left[Earliest(r1)].type)
              /\ powerups' = IF r1 = {} THEN left ELSE RemoveAt(left, Earliest(r1))
              /\ Len(powerups) - Len(powerups') <= 2
              /\ \A k \in DOMAIN powerups' : \E j \in DOMAIN powerups : powerups'[k] = powerups[j]]_vars

\* A pickup pass has given combatant 0 one power-up and left another one
\* within its reach in the list; combatant 1 has received nothing.
C24_Witness ==
    /\ players[0].dash_charges = START_DASH_CHARGES + 1
    /\ players[1].dash_charges = START_DASH_CHARGES
    /\ Len(powerups) = 1
    /\ InReach(powerups, players[0]) = {1}
    /\ spawn_timer > 0

\* ------------------------------------------------- the AI, continued
\* AIManager.update has run for a living AI.
AIUpdated == players[0].alive /\ \E dt \in AIDTs, draw \in NoiseDraws : AgUpdate(dt, draw)

C26_InputComplete ==
    [][AIUpdated => Supplied(ai') = KeyNames]_vars

\* ------------------------------------------- a round with an AI combatant
\* The scene _setup_round builds for player_count 2 and ai_count 1: two
\* human combatants and, last in the players list, a medium AIPlayer whose
\* planner fields are ai.  Countdown frames and at most MaxMixedFrames frames
\* of the running round.
MaxMixedFrames == 5
MxDTs == {100, 200, 1000}

InitMixed ==
    /\ SceneFields
    /\ ai = NewAI("medium")
    /\ players = [i \in 0 .. 2 |-> NewPlayer(SpawnPoint(i, 3).x, SpawnPoint(i, 3).y, i)]
    /\ since_empty = -1
    /\ since_buffer = -1
    /\ roster = << <<0, 2>> >>
    /\ calls = 0

\* GameScene.update, lines 170-189, for a running round whose AI is alive and
\* not dashing: the clock, the platform and AIManager.update.  The KeyError
\* of the AI's Player.update leaves update there, before the power-ups and
\* the loop over the combatants; keys are the keys the humans hold.
MxFrame(dt, keys, draw) ==
    /\ game_started
    /\ ~game_over
    /\ players[2].alive /\ ~players[2].is_dashing
    /\ calls < MaxMixedFrames
    /\ calls' = calls + 1
    /\ round_time' = round_time + dt
    /\ shrunk_for' = IF ShrinkDue(round_time') THEN shrunk_for + dt ELSE shrunk_for
    /\ platform' = IF ShrinkDue(round_time')
                   THEN [platform EXCEPT !.radius = PlatformUpdate(@, dt)]
                   ELSE platform
    /\ ai' = AIUpdate(ai, players, 2, platform'.radius, dt, draw)
    /\ players' = [players EXCEPT ![2] = PlayerUpdateFaked(@, dt, ai')]
    /\ UNCHANGED <<player_count, powerups, spawn_timer, hitstop_duration,
                   hitstop_elapsed, game_over, winner, scores, countdown,
                   countdown_time, game_started, pair_log, particles,
                   active_count, since_empty, since_buffer, roster>>

NextMixed ==
    \/ \E dt \in MxDTs : CountdownFrame(dt)
    \/ \E dt \in MxDTs, keys \in JointKeys({0, 1}), draw \in NoiseDraws : MxFrame(dt, keys, draw)

SpecMixed == InitMixed /\ [][NextMixed]_vars

\* C27: a frame of the running round applies Player.update exactly once to
\* every living combatant - to the humans with the keys they hold, to the AI
\* with the input its planner has synthesized in that frame.
C27_UpdatedOnce ==
    [][\A dt \in MxDTs, keys \in JointKeys({0, 1}), draw \in NoiseDraws :
          MxFrame(dt, keys, draw) =>
             /\ \A i \in {0, 1} : players'[i] = PlayerUpdate(players[i], dt, keys[i])
             /\ players'[2] = PlayerUpdate(players[2], dt, ai'.fake_keys)]_vars

\* ------------------------------------------ the combatant, continued
\* C28: an update in which the cooldown expiry regenerates a charge (and no
\* dash is started) restarts the cooldown if the combatant is still below the
\* maximum and leaves no cooldown running if the charge was the one that
\* reached the maximum.
C28_NoRestartAtMax ==
    [][\A dt \in CombatantDTs, keys \in CombatantKeys :
          LET p == players[0]
              q == players'[0]
          IN  (CUpdate(dt, keys) /\ p.alive /\ q.dash_charges = p.dash_charges + 1)
                 => IF q.dash_charges < MAX_DASH_CHARGES
                    THEN q.dash_cooldown = PLAYER_DASH_COOLDOWN
                    ELSE q.dash_cooldown <= 0]_vars

\* C29: the remaining dash cooldown is never negative.
C29_CooldownNonNegative ==
    \A i \in DOMAIN players : players[i].dash_cooldown >= 0

\* ------------------------------------------------- frames that never stop
\* The game loop calls Player.update every frame for as long as the program
\* runs; the player may dash (at most MaxRegenDashes times here) or not.
MaxRegenDashes == 2
RegenDTs == {300, 2500}

Frame(dt, keys) ==
    /\ players' = [players EXCEPT ![0] = PlayerUpdate(@, dt, keys)]
    /\ UNCHANGED <<since_buffer, roster>>
    /\ since_empty' = IF players'[0].dash_charges > 0 THEN -1
                      ELSE IF Emptied(players[0], players'[0]) THEN 0
                      ELSE IF players[0].alive THEN since_empty + dt
                      ELSE since_empty
    /\ UNCHANGED sceneVars

RgDash(dt) == Call /\ calls < MaxRegenDashes /\ Frame(dt, DashRight)

RgIdle(dt) == Frame(dt, NoKeys) /\ UNCHANGED calls

IdleFrame == \E dt \in RegenDTs : RgIdle(dt)

NextRegen == (\E dt \in RegenDTs : RgDash(dt)) \/ IdleFrame

\* Frames keep coming (weak fairness on the idle frame); dashing is the
\* player's choice and is never forced.
SpecRegen == InitCombatant /\ [][NextRegen]_vars /\ WF_vars(IdleFrame)

\* C30: a living combatant below the maximum that dashes no more gets back
\* to the maximum as frames with dt > 0 go on (unless it is eliminated).
C30_RegainsCharges ==
    [](  (players[0].alive /\ players[0].dash_charges < MAX_DASH_CHARGES)
      => <>(players[0].dash_charges = MAX_DASH_CHARGES \/ ~players[0].alive))

\* ------------------------------------------------- the dash input buffer
\* One combatant, new (1 charge) or respawned (2 charges), receiving at most
\* MaxBufferCalls frames with any of the key combinations below.
MaxBufferCalls == 4
BufferDTs == {0, 30, 40, 160}
BufferKeys == { NoKeys,
                Keys(FALSE, FALSE, FALSE, FALSE, TRUE),
                Keys(FALSE, FALSE, FALSE, TRUE, FALSE),
                DashRight }

InitBuffer ==
    /\ SceneInit
    /\ \E fresh \in BOOLEAN :
          players = [i \in {0} |-> IF fresh THEN NewPlayer(SpawnX, SpawnY, 0)
                                   ELSE respawn(NewPlayer(SpawnX, SpawnY, 0), SpawnX, SpawnY)]
    /\ since_empty = -1
    /\ since_buffer = -1
    /\ roster = <<>>
    /\ calls = 0

Moving(keys) == MoveX(keys) # 0 \/ MoveY(keys) # 0

\* Player.update; since_buffer restarts when the frame sets the buffer and
\* otherwise accumulates dt while a dash is buffered.
BfFrame(dt, keys) ==
    /\ calls < MaxBufferCalls
    /\ calls' = calls + 1
    /\ players' = [players EXCEPT ![0] = PlayerUpdate(@, dt, keys)]
    /\ since_buffer' = IF ~players'[0].buffered_dash THEN -1
                       ELSE IF \/ ~players[0].buffered_dash
                               \/ dt > 0 /\ players'[0].buffer_time = DASH_BUFFER_TIME
                       THEN 0
                       ELSE since_buffer + dt
    /\ UNCHANGED <<since_empty, roster, sceneVars>>

NextBuffer == \E dt \in BufferDTs, keys \in BufferKeys : BfFrame(dt, keys)

SpecBuffer == InitBuffer /\ [][NextBuffer]_vars

\* C31: a dash input with charges, not dashing and nothing buffered starts a
\* dash in the same frame when movement is held and otherwise sets the 100 ms
\* buffer without taking a charge; a buffered dash fires, taking exactly one
\* charge, on a frame with movement held while less than 100 ms of dt has
\* accumulated since buffering, and is dropped without taking a charge once
\* 100 ms have accumulated.
C31_DashBuffer ==
    [][\A dt \in BufferDTs, keys \in BufferKeys :
          LET p == players[0]
              q == players'[0]
              had == UpdateCooldown(p, dt).dash_charges
              ready == p.alive /\ ~p.is_dashing /\ p.dash_charges > 0
              started == q.is_dashing /\ q.dash_time = 0 /\ ~q.buffered_dash
                            /\ q.dash_charges = had - 1
          IN  BfFrame(dt, keys) =>
                /\ (ready /\ keys.dash /\ ~p.buffered_dash /\ Moving(keys)) => started
                /\ (ready /\ keys.dash /\ ~p.buffered_dash /\ ~Moving(keys))
                      => /\ q.buffered_dash /\ q.buffer_time = DASH_BUFFER_TIME
                         /\ ~q.is_dashing /\ q.dash_charges = had
                /\ (ready /\ p.buffered_dash /\ Moving(keys)
                      /\ since_buffer + dt < DASH_BUFFER_TIME) => started
                /\ (ready /\ p.buffered_dash /\ ~keys.dash
                      /\ since_buffer + dt >= DASH_BUFFER_TIME)
                      => ~q.buffered_dash /\ ~q.is_dashing /\ q.dash_charges = had]_vars

\* A buffered dash has just fired part-way through its window.
C31_Witness ==
    /\ players[0].is_dashing
    /\ players[0].dash_time = 0
    /\ players[0].buffer_time > 0
    /\ players[0].buffer_time < DASH_BUFFER_TIME
    /\ ~players[0].buffered_dash
    /\ calls > 0

\* ------------------------------------------------- a dash running its course
\* One combatant, new or respawned, under frames that never stop: the dash
\* key (with right) is held in at most MaxDashPresses of them.
MaxDashPresses == 2
DashDTs == {50, 150}
IdleDTs == {100}

DsPress(dt) ==
    /\ calls < MaxDashPresses
    /\ calls' = calls + 1
    /\ players' = [players EXCEPT ![0] = PlayerUpdate(@, dt, DashRight)]
    /\ UNCHANGED <<since_empty, since_buffer, roster, sceneVars>>

DsIdle(dt) ==
    /\ players' = [players EXCEPT ![0] = PlayerUpdate(@, dt, NoKeys)]
    /\ UNCHANGED <<since_empty, since_buffer, roster, calls, sceneVars>>

DsIdleFrame == \E dt \in IdleDTs : DsIdle(dt)

NextDash == (\E dt \in DashDTs : DsPress(dt)) \/ DsIdleFrame

\* Frames keep coming; pressing the dash key is never forced.
SpecDash == InitBuffer /\ [][NextDash]_vars /\ WF_vars(DsIdleFrame)

\* C32: a frame of a dashing combatant ignores the keys, takes no charge and
\* starts no dash; it ends the dash exactly when dash_time + dt reaches the
\* dash duration (is_dashing cleared, dash_time 0) and otherwise accumulates
\* dt; and under frames with dt > 0 every dash of a living combatant ends.
C32_DashEnds ==
    /\ [][\A dt \in DashDTs \cup IdleDTs :
            LET p == players[0]
                q == players'[0]
            IN  ((DsPress(dt) \/ DsIdle(dt)) /\ p.alive /\ p.is_dashing)
                   => /\ q = PlayerUpdate(p, dt, NoKeys)
                      /\ q.dash_charges = UpdateCooldown(p, dt).dash_charges
                      /\ q.dash_direction = p.dash_direction
                      /\ IF p.dash_time + dt >= PLAYER_DASH_DURATION
                         THEN ~q.is_dashing /\ q.dash_time = 0
                         ELSE q.is_dashing /\ q.dash_time = p.dash_time + dt]_vars
    /\ ((players[0].alive /\ players[0].is_dashing)
           ~> (~players[0].is_dashing \/ ~players[0].alive))

\* Mid-dash with a charge in hand, after the dash key was held a second time.
C32_Witness ==
    /\ players[0].is_dashing
    /\ players[0].dash_time > 0
    /\ players[0].dash_charges > 0
    /\ calls >= 2

\* C33: one Player.update takes at most one charge, whatever the dash key,
\* the movement keys and a pending buffered dash (the count is compared with
\* the one left by the cooldown step of the same update).
C33_OneChargePerUpdate ==
    [][\A dt \in CombatantDTs, keys \in CombatantKeys :
          CUpdate(dt, keys)
             => players'[0].dash_charges >= UpdateCooldown(players[0], dt).dash_charges - 1]_vars

\* A pending buffered dash has just been fired by an update that had the
\* charges for two dashes.
C33_Witness ==
    /\ players[0].alive
    /\ players[0].is_dashing
    /\ players[0].dash_time = 0
    /\ players[0].buffer_time > 0
    /\ ~players[0].buffered_dash
    /\ players[0].dash_charges = MAX_DASH_CHARGES - 1

\* ------------------------------------------------- a round at the edge
\* A running round 9.9 s old (the power-up spawned at 8 s has been collected):
\* combatants 0 and 1 overlap close to the right-hand edge of the platform
\* and combatant 2 stands exactly on the edge; then frames of the running
\* round (at most MaxFrames).
EdgeDTs == {16, 100}
EdgeSpots == {CENTER.x + 292, CENTER.x + 296}
EdgeVels == {Vec(0, 0), Vec(300, 0)}

InitEdge ==
    /\ player_count = 3
    /\ platform = [radius |-> PLATFORM_START_RADIUS * RADIUS_UNIT]
    /\ powerups = <<>>
    /\ spawn_timer = 1900
    /\ hitstop_duration = 0
    /\ hitstop_elapsed = 0
    /\ round_time = 9900
    /\ game_over = FALSE
    /\ winner = None
    /\ scores = [i \in 0 .. PLAYER_COUNT - 1 |-> 0]
    /\ countdown = 0
    /\ countdown_time = 0
    /\ game_started = TRUE
    /\ shrunk_for = 0
    /\ pair_log = <<>>
    /\ particles = [k \in 1 .. PoolSize |-> NewParticle]
    /\ active_count = 0
    /\ ai = NoAI
    /\ \E x0 \in EdgeSpots, v0, v1 \in EdgeVels :
          players = [i \in 0 .. 2 |->
                       IF i = 0 THEN [NewPlayer(x0, CENTER.y, 0) EXCEPT !.vel = v0]
                       ELSE IF i = 1
                       THEN [NewPlayer(CENTER.x + 266, CENTER.y, 1) EXCEPT !.vel = v1]
                       ELSE NewPlayer(CENTER.x, CENTER.y - PLATFORM_START_RADIUS, 2)]
    /\ since_empty = -1
    /\ since_buffer = -1
    /\ roster = <<>>
    /\ calls = 0

EdgeFrame(dt, keys) == ActiveFrame(dt, keys, CENTER, SPEED_BOOST)

NextEdge == \E dt \in EdgeDTs, keys \in JointKeys(DOMAIN players) : EdgeFrame(dt, keys)

SpecEdge == InitEdge /\ [][NextEdge]_vars

\* Squared distance from the centre > radius squared (radius in radius units).
OffPlatform(radius, pos) ==
    ((pos.x - CENTER.x) * (pos.x - CENTER.x) + (pos.y - CENTER.y) * (pos.y - CENTER.y))
        * RADIUS_UNIT * RADIUS_UNIT > radius * radius

\* C34: a frame of the running round eliminates a living combatant if and
\* only if the position its own update left it at is off the platform of
\* that frame (strictly farther from the centre than the radius); what the
\* collision pass of the frame does to its position does not count.
C34_EliminatedIffOff ==
    [][\A dt \in EdgeDTs, keys \in JointKeys(DOMAIN players) :
          EdgeFrame(dt, keys) =>
             \E w1 \in {BeforeCollisions(dt, keys, CENTER, SPEED_BOOST)} :
                \A i \in DOMAIN players :
                   players[i].alive =>
                      (~players'[i].alive <=> OffPlatform(platform'.radius, w1.players[i].pos))]_vars

\* A living combatant that the collision pass has pushed off the platform,
\* next to one standing exactly on the edge.
C34_Witness ==
    /\ InActive
    /\ calls > 0
    /\ \E i \in DOMAIN players :
          players[i].alive /\ OffPlatform(platform.radius, players[i].pos)
    /\ \E i \in DOMAIN players :
          /\ players[i].alive
          /\ ~OffPlatform(platform.radius, players[i].pos)
          /\ ~OffPlatform(platform.radius + 1, players[i].pos)
          /\ OffPlatform(platform.radius - 1, players[i].pos)

\* Overlap of two combatants in thousandths of a pixel.
Overlap(e1, e2) ==
    2 * PLAYER_RADIUS * 1000
       - ISqrt(((e2.pos.x - e1.pos.x) * (e2.pos.x - e1.pos.x)
                 + (e2.pos.y - e1.pos.y) * (e2.pos.y - e1.pos.y)) * 1000000)

\* Distance a combatant was moved, in thousandths of a pixel.
Moved(e, f) == 1000 * Length(Vec(f.pos.x - e.pos.x, f.pos.y - e.pos.y))

\* C35: one resolve_collision call on an overlapping pair moves each of the
\* two by 0.3 x overlap (to the pixel), 0.6 x overlap in total, and so leaves
\* the pair overlapping.
C35_SoftCorrection ==
    [][\A a, b \in 0 .. 2, nrm \in Normals :
          XResolve(a, b, nrm) =>
             /\ Moved(players[a], players'[a]) <= Div(3 * Overlap(players[a], players[b]), 10) + 1000
             /\ Moved(players[b], players'[b]) <= Div(3 * Overlap(players[a], players[b]), 10) + 1000
             /\ check_collision(players'[a], players'[b])]_vars

\* Change of velocity of e (before) to f (after) along the vector d.
Gain(e, f, d) == (f.vel.x - e.vel.x) * d.x + (f.vel.y - e.vel.y) * d.y

\* C36: every resolve_collision call on an overlapping pair pushes the two
\* apart along the line of centres and gives them opposite tangential
\* kicks, whether the pair is separating or not.
C36_PushAlways ==
    [][\A a, b \in 0 .. 2, nrm \in Normals :
          (XResolve(a, b, nrm) /\ ~Coincide(players[a], players[b])) =>
             LET d == Vec(players[b].pos.x - players[a].pos.x, players[b].pos.y - players[a].pos.y)
                 t == Vec(-d.y, d.x)
             IN  /\ Gain(players[a], players'[a], d) < 0
                 /\ Gain(players[b], players'[b], d) > 0
                 /\ Gain(players[a], players'[a], t) > 0
                 /\ Gain(players[b], players'[b], t) < 0]_vars

\* The charge count a power-up of type t leaves a combatant holding c.
ChargesAfter(t, c) ==
    IF t = SPEED_BOOST THEN Min(MAX_DASH_CHARGES, c + 1)
    ELSE IF t = TRIPLE_DASH THEN MAX_DASH_CHARGES
    ELSE c

Ticking(i) ==
    /\ players[i].alive
    /\ players[i].dash_cooldown > 0
    /\ players'[i].dash_cooldown # PLAYER_DASH_COOLDOWN

\* The dt combatant i was updated with, read off its dash cooldown.
Effective(i) == players[i].dash_cooldown - players'[i].dash_cooldown

\* C38: in a frame of the running round all living combatants are updated
\* with the same dt (seen through their running dash cooldowns).
C38_SameDelta ==
    [][(InActive /\ ~ResetStep) =>
          \A i, j \in DOMAIN players :
             (Ticking(i) /\ Ticking(j)) => Effective(i) = Effective(j)]_vars

\* ------------------------------------------------- the AI roster
\* The scene of the mixed harness (two human combatants and RosterAIs AI
\* combatants, ai_count being set on the scene as the menu sets player_count)
\* entered again and again, at most MaxRosterRounds times, with countdown
\* frames in between.  calls numbers the rounds.
MaxRosterRounds == 4
RosterAIs == 1

\* GameScene.on_enter -> _setup_round with ai_count = RosterAIs: the
\* combatants of the new round are created, each AIPlayer is handed to
\* AIManager.add_ai, and nothing takes the earlier ones off the roster.
RsEnter ==
    /\ calls < MaxRosterRounds
    /\ calls' = calls + 1
    /\ SetupRound(player_count + RosterAIs)
    /\ ai' = NewAI("medium")
    /\ roster' = roster \o [k \in 1 .. RosterAIs |-> <<calls + 1, player_count + k - 1>>]
    /\ UNCHANGED <<player_count, since_empty, since_buffer, pair_log, particles, active_count>>

NextRoster ==
    \/ RsEnter
    \/ \E dt \in SetupDTs : CountdownFrame(dt)

SpecRoster == InitMixed /\ [][NextRoster]_vars

\* C39: the roster of the AI manager holds exactly the AI combatants of the
\* current round, each once.
C39_RosterCurrent ==
    /\ Len(roster) = RosterAIs
    /\ \A k \in DOMAIN roster : roster[k] = <<calls, player_count + k - 1>>
====
